---- MODULE Spec2Model ----
(***************************************************************************)
(* ATLAS: sampler (PerformanceCollector), triage engine                    *)
(* (PerformanceAnalyzer + PerformanceThresholds), store (SQLiteRepository) *)
(* and orchestrator (Core: the collection thread, the singleton and the    *)
(* store observer), modelled from the Python sources.                      *)
(*                                                                         *)
(* The specifications of the module:                                       *)
(*   Spec         the store: save_metrics step by step (insert, commit,    *)
(*                notify), the observer registry and a concurrent reader;  *)
(*   SpecTriage   _filter_problematic_queries applied to batches drawn     *)
(*                from a universe that exercises every criterion;          *)
(*   SpecCap      the same function on longer batches under a profile      *)
(*                with a small cap (deduplication, ranking, truncation);   *)
(*   SpecSampler  the collector's start / collect / stop life cycle;       *)
(*   SpecLoop     start_data_collection / stop_data_collection called from *)
(*                two threads, and the threads running _collection_worker  *)
(*                (SpecLoopCallers, SpecLoopFair: the same with fairness); *)
(*   SpecSingleton  Core.get_instance called from several threads;         *)
(*   SpecForward  Core.__init__ (initialize_rabbitmq) and _on_new_data;    *)
(*   SpecQuery    get_latest_metrics and get_all_metrics over rows stamped *)
(*                with created_at;                                         *)
(*   SpecReentrant  the store with observers that register or remove       *)
(*                observers while they are notified;                       *)
(*   SpecMaint    cleanup_old_metrics and remove_duplicate_queries;        *)
(*   SpecText     the query_text / query_plan columns written by           *)
(*                save_metrics or by an earlier version, and read back.    *)
(***************************************************************************)
EXTENDS Integers, Sequences, FiniteSets, TLC

(***************************************************************************)
(* Bounds of the model.                                                    *)
(***************************************************************************)
\* most rows the store holds
MaxRows == 3
\* longest batch handed to save_metrics
MaxBatch == 2
\* most rows one collect() returns
MaxCollected == 2
\* longest batch handed to the analyzer under the three presets
MaxTriageLen == 2
\* longest batch handed to the analyzer under the small cap
MaxCapLen == 4
\* max_stored_queries_per_collection of the small-cap profile
SmallCap == 2
\* most Thread objects start_data_collection creates
MaxWorkers == 2
\* most batches handed to Core._on_new_data
MaxForwarded == 2
\* last second of the clock
MaxClock == 2
\* longest batch appended before a query
MaxQueryBatch == 3
\* largest limit handed to get_latest_metrics
MaxLimit == 3
\* days the maintenance clock runs
MaxDay == 1
\* most rows appended to the table under maintenance
MaxStored == 3
\* longest batch appended before maintenance
MaxMaintBatch == 2

(***************************************************************************)
(* Values the model fixes.                                                 *)
(***************************************************************************)
\* code points of '0', '.', 'a' and 'x'
CodeOfZero == 48
CodeOfDot == 46
CodeOfA == 97
CodeOfX == 120
\* the two header bytes of a zlib stream written at level 9: 78 DA
ZlibCMF == 120
ZlibFLG == 218

VARIABLES
    \* ---- store (SQLiteRepository) ----
    rows,        \* committed rows of custom_metrics, in id order
    nextId,      \* next AUTOINCREMENT id (sqlite_sequence), committed
    observers,   \* self._observers, a list
    pc,          \* position of the save_metrics call in flight
    cur,         \* its argument `metrics`
    txn,         \* rows inserted by the open transaction, not yet committed
    ni,          \* index of the for loop of _notify_observers
    calls,       \* observer calls made by the current / last save_metrics
    ret,         \* return value of the last save_metrics
    lastRead,    \* what the last read on another connection returned
    rowsBefore,  \* history: rows when the current / last save_metrics began
    obsAtCommit, \* history: the observer list when it committed
    \* ---- triage engine (PerformanceAnalyzer) ----
    tBatch,      \* raw_data.get_data(): the batch handed to the analyzer
    tProfile,    \* name of the PerformanceThresholds in self.thresholds
    tPc,         \* "ready" before _filter_problematic_queries, "done" after
    tResult,     \* what it returned, or that it raised
    \* ---- sampler (PerformanceCollector) ----
    isStarted,   \* self._is_started
    connection,  \* connector.connection: "none" (None), or a connection whose
                 \* server is reachable ("up") or not ("down")
    startLog,    \* what the last start() logged
    collected,   \* the answer of the last collect(), with the state it was made in
    life,        \* history: "new", or the last of start() / stop()
    \* ---- orchestrator (Core): collection thread ----
    server,      \* the monitored SQL Server: "up" (reachable) or "down"
    collectionThread, \* self._collection_thread: 0 (None) or a worker's number
    stopFlag,    \* self._stop_collection (threading.Event): is it set
    callerPc,    \* per calling thread: where it is in start / stop_data_collection
    workerPc,    \* per Thread object: its position in _collection_worker
    nextWorker,  \* Thread objects created so far
    elapsed,     \* per worker: its interval wait has lasted the interval
    lastCycle,   \* per worker: how its cycles have ended so far
    lastCall,    \* history: the last call that returned, and how
    \* ---- orchestrator (Core): singleton ----
    instance,    \* Core._instance: 0 (None) or the number of a Core object
    constructed, \* Core objects constructed so far
    getPc,       \* per thread: where it is in get_instance
    getLocal,    \* per thread: the Core object it constructed
    getRet,      \* per thread: what its last get_instance returned
    \* ---- orchestrator (Core): construction and forwarding ----
    corePc,      \* "new" before Core.__init__, "ready" after
    mqConfig,    \* RabbitMQ: configured enabled, and what the broker answers
    mq_bridge,   \* self.mq_bridge: "none" (None) or "bridge"
    coreObservers, \* observers Core registered with the repository
    guiCache,    \* gui_adapter.data_cache: the batches added
    published,   \* batches sent through MQBridge.send_message
    forwardLog,  \* per appended batch: how _on_new_data ended
    \* ---- store queries (SQLiteRepository) ----
    qRows,       \* committed rows with their created_at, in id order
    qClock,      \* CURRENT_TIMESTAMP, in seconds
    qResult,     \* what the last query returned
    \* ---- store maintenance (SQLiteRepository) ----
    mSchema,     \* custom_metrics.query_hash: "not null" (the table this code
                 \* creates) or "nullable" (a table that was already there)
    mRows,       \* rows of custom_metrics with their timestamp column
    mNextId,     \* next AUTOINCREMENT id
    mNow,        \* datetime.now()
    mLast,       \* history: the last maintenance call, the table before and after
    \* ---- store text fields (compress_data / _decompress_text_field) ----
    zRow,        \* the query_text and query_plan columns of a stored row
    zRead        \* what a read operation returned for that row

storeVars == <<rows, nextId, observers, pc, cur, txn, ni, calls, ret,
               lastRead, rowsBefore, obsAtCommit>>

triageVars == <<tBatch, tProfile, tPc, tResult>>

samplerVars == <<isStarted, connection, startLog, collected, life>>

loopVars == <<server, collectionThread, stopFlag, callerPc, workerPc,
              nextWorker, elapsed, lastCycle, lastCall>>

singletonVars == <<instance, constructed, getPc, getLocal, getRet>>

forwardVars == <<corePc, mqConfig, mq_bridge, coreObservers, guiCache,
                 published, forwardLog>>

queryVars == <<qRows, qClock, qResult>>

maintVars == <<mSchema, mRows, mNextId, mNow, mLast>>

textVars == <<zRow, zRead>>

extraVars == <<maintVars, textVars>>

coreVars == <<loopVars, singletonVars, forwardVars, queryVars, extraVars>>

vars == <<storeVars, triageVars, samplerVars, coreVars>>

(***************************************************************************)
(* Store: records handed to save_metrics.                                  *)
(***************************************************************************)
\* Python None
PyNone == "<None>"

\* None in the query_hash field
NullHash == PyNone

\* A metric as save_metrics reads it: complete = FALSE stands for a dict in
\* which one of the keys read by item[...] is missing (KeyError).
Metric(t, h, c) == [text |-> t, hash |-> h, complete |-> c]

StoreMetrics ==
    { Metric("q1", "h1", TRUE), Metric("q2", "h2", TRUE),
      Metric("q3", NullHash, TRUE), Metric("q4", "h1", FALSE) }

RECURSIVE SeqsUpTo(_, _)
SeqsUpTo(S, n) ==
    IF n = 0 THEN { <<>> }
    ELSE LET shorter == SeqsUpTo(S, n - 1)
         IN  shorter \cup { Append(s, x) : s \in { q \in shorter : Len(q) = n - 1 }, x \in S }

\* cursor.execute(INSERT ...) of one metric raises: a missing key
\* (KeyError) or a NULL in a NOT NULL column (sqlite3.IntegrityError).
InsertRaises(m) == ~m.complete \/ m.hash = NullHash

Row(m, id) == [id |-> id, text |-> m.text, hash |-> m.hash]

RowsOf(batch, first) == [i \in 1..Len(batch) |-> Row(batch[i], first + i - 1)]

\* What a SELECT on another connection sees: committed rows only.
ReadView(committed, pending) == committed

\* (mutant) the exception leaves what was inserted so far in the table
OnExceptionKeepsPartial(committed, pending) == committed \o pending

\* `with sqlite3.connect(...) as conn` left by an exception: rollback.
OnException(committed, pending) == committed

\* (mutant) observers are notified before conn.commit()
AfterInsertsNotifyFirst == "notify"

\* Where save_metrics goes once the for loop over metrics is done.
AfterInserts == "commit"

\* (mutant) no try/except around the observer call: the exception leaves
\* _notify_observers and save_metrics answers False
OnObserverErrorAbort == "abort"

\* _notify_observers: an observer raised; the except clause logs and the
\* for loop goes on.
OnObserverError == "notify"

StoreInit ==
    /\ rows = <<>>
    /\ nextId = 1
    /\ observers = <<>>
    /\ pc = "idle"
    /\ cur = <<>>
    /\ txn = <<>>
    /\ ni = 1
    /\ calls = <<>>
    /\ ret = "none"
    /\ lastRead = [view |-> <<>>, pending |-> 0, inflight |-> 0]
    /\ rowsBefore = <<>>
    /\ obsAtCommit = <<>>

ObserverIds == {"o1", "o2"}

InSeq(x, s) == \E i \in 1..Len(s) : s[i] = x

RECURSIVE Without(_, _)
\* list.remove(x): drops the first occurrence
Without(s, x) ==
    IF s = <<>> THEN <<>>
    ELSE IF Head(s) = x THEN Tail(s)
    ELSE <<Head(s)>> \o Without(Tail(s), x)

\* (mutant) no `if observer not in self._observers`
add_observer_unchecked(o) ==
    /\ pc = "idle"
    /\ observers' = Append(observers, o)
    /\ UNCHANGED <<rows, nextId, pc, cur, txn, ni, calls, ret, lastRead,
                   rowsBefore, obsAtCommit, triageVars, samplerVars, coreVars>>

add_observer(o) ==
    /\ pc = "idle"
    /\ observers' = IF InSeq(o, observers) THEN observers ELSE Append(observers, o)
    /\ UNCHANGED <<rows, nextId, pc, cur, txn, ni, calls, ret, lastRead,
                   rowsBefore, obsAtCommit, triageVars, samplerVars, coreVars>>

remove_observer(o) ==
    /\ pc = "idle"
    /\ observers' = IF InSeq(o, observers) THEN Without(observers, o) ELSE observers
    /\ UNCHANGED <<rows, nextId, pc, cur, txn, ni, calls, ret, lastRead,
                   rowsBefore, obsAtCommit, triageVars, samplerVars, coreVars>>

\* save_metrics is entered: the empty-batch guard, then the connection opens.
save_metrics_call(batch) ==
    /\ pc = "idle"
    /\ Len(rows) + Len(batch) <= MaxRows
    /\ cur' = batch
    /\ calls' = <<>>
    /\ rowsBefore' = rows
    /\ txn' = <<>>
    /\ ni' = 1
    /\ IF batch = <<>>
       THEN /\ ret' = "false"
            /\ pc' = "idle"
       ELSE /\ ret' = "pending"
            /\ pc' = "insert"
    /\ UNCHANGED <<rows, nextId, observers, lastRead, obsAtCommit, triageVars, samplerVars, coreVars>>

\* one turn of `for metric in metrics`: the INSERT, or the exception that
\* leaves the with block (rollback) and is answered with False.
save_metrics_insert ==
    /\ pc = "insert"
    /\ \E ioError \in BOOLEAN :
         LET m == cur[Len(txn) + 1]
         IN  IF InsertRaises(m) \/ ioError
             THEN /\ rows' = OnException(rows, txn)
                  /\ txn' = <<>>
                  /\ ret' = "false"
                  /\ pc' = "idle"
             ELSE /\ txn' = Append(txn, Row(m, nextId + Len(txn)))
                  /\ pc' = IF Len(txn) + 1 = Len(cur) THEN AfterInserts ELSE "insert"
                  /\ UNCHANGED <<rows, ret>>
    /\ UNCHANGED <<nextId, observers, cur, ni, calls, lastRead, rowsBefore,
                   obsAtCommit, triageVars, samplerVars, coreVars>>

\* conn.commit(), or its failure (sqlite3.Error: rollback, False).
save_metrics_commit ==
    /\ pc = "commit"
    /\ \E ioError \in BOOLEAN :
         IF ioError
         THEN /\ rows' = OnException(rows, txn)
              /\ txn' = <<>>
              /\ ret' = "false"
              /\ pc' = "idle"
              /\ UNCHANGED <<nextId, ni, obsAtCommit>>
         ELSE /\ rows' = rows \o txn
              /\ nextId' = nextId + Len(txn)
              /\ txn' = <<>>
              /\ ni' = 1
              /\ obsAtCommit' = observers
              /\ pc' = "notify"
              /\ UNCHANGED ret
    /\ UNCHANGED <<observers, cur, calls, lastRead, rowsBefore, triageVars, samplerVars, coreVars>>

\* rows of the store that the save_metrics call in flight has committed
StoredByCall == SubSeq(rows, Len(rowsBefore) + 1, Len(rows))

\* one turn of `for observer in self._observers`: the call, which may raise.
notify_observers_step ==
    /\ pc = "notify"
    /\ ni <= Len(observers)
    /\ \E raised \in BOOLEAN :
         /\ calls' = Append(calls, [obs |-> observers[ni], batch |-> cur,
                                    stored |-> StoredByCall,
                                    raised |-> raised])
         /\ IF raised /\ OnObserverError # "notify"
            THEN /\ pc' = "idle"
                 /\ ret' = "false"
                 /\ UNCHANGED ni
            ELSE /\ ni' = ni + 1
                 /\ UNCHANGED <<pc, ret>>
    /\ UNCHANGED <<rows, nextId, observers, cur, txn, lastRead, rowsBefore,
                   obsAtCommit, triageVars, samplerVars, coreVars>>

\* the loop is over: return True (the with block commits again, a no-op).
save_metrics_return ==
    /\ pc = "notify"
    /\ ni > Len(observers)
    /\ ret' = "true"
    /\ pc' = "idle"
    /\ rows' = rows \o txn
    /\ nextId' = nextId + Len(txn)
    /\ txn' = <<>>
    /\ UNCHANGED <<observers, cur, ni, calls, lastRead, rowsBefore, obsAtCommit,
                   triageVars, samplerVars, coreVars>>

\* a read (get_all_metrics) on its own connection, at any moment
read_concurrent ==
    /\ lastRead' = [view |-> ReadView(rows, txn),
                    pending |-> Len(ReadView(rows, txn)) - Len(rows),
                    inflight |-> IF pc \in {"insert", "commit"} THEN Len(cur) ELSE 0]
    /\ UNCHANGED <<rows, nextId, observers, pc, cur, txn, ni, calls, ret,
                   rowsBefore, obsAtCommit, triageVars, samplerVars, coreVars>>

\* the list after add_observer(o) / remove_observer(o)
AfterAdd(list, o) == IF InSeq(o, list) THEN list ELSE Append(list, o)

AfterRemove(list, o) == IF InSeq(o, list) THEN Without(list, o) ELSE list

\* one turn of `for observer in self._observers` in which the observer that
\* is called registers or removes an observer, itself or another, before it
\* returns: the list changes under the loop
notify_observers_reentrant ==
    /\ pc = "notify"
    /\ ni <= Len(observers)
    /\ \E o \in ObserverIds, adds \in BOOLEAN :
         /\ observers' = IF adds THEN AfterAdd(observers, o) ELSE AfterRemove(observers, o)
         /\ observers' # observers
    /\ calls' = Append(calls, [obs |-> observers[ni], batch |-> cur,
                               stored |-> StoredByCall, raised |-> FALSE])
    /\ ni' = ni + 1
    /\ UNCHANGED <<rows, nextId, pc, cur, txn, ret, lastRead, rowsBefore,
                   obsAtCommit, triageVars, samplerVars, coreVars>>

(***************************************************************************)
(* Triage engine: PerformanceThresholds and PerformanceAnalyzer.           *)
(***************************************************************************)
\* PerformanceThresholds(): the dataclass defaults (the balanced preset)
Balanced ==
    [ max_avg_elapsed_time_ms |-> 1000,
      max_total_elapsed_time_ms |-> 30000,
      max_avg_cpu_time_ms |-> 5000,
      max_avg_logical_reads |-> 10000,
      max_avg_physical_reads |-> 1000,
      max_total_logical_reads |-> 1000000,
      min_spills_to_capture |-> 1,
      max_avg_grant_kb |-> 50000,
      min_execution_count |-> 1,
      max_execution_count_for_slow_queries |-> 10,
      min_buffer_hit_ratio |-> 80,
      min_cpu_efficiency_ratio |-> 50,
      max_stored_queries_per_collection |-> 50 ]

\* get_conservative_thresholds()
Conservative ==
    [ Balanced EXCEPT !.max_avg_elapsed_time_ms = 500,
                      !.max_total_elapsed_time_ms = 10000,
                      !.max_avg_cpu_time_ms = 2000,
                      !.max_avg_logical_reads = 5000,
                      !.max_avg_physical_reads = 500,
                      !.max_stored_queries_per_collection = 25 ]

\* (mutant) an aggressive preset with one limit below the default
AggressiveTighter ==
    [ Balanced EXCEPT !.max_avg_elapsed_time_ms = 2000,
                      !.max_total_elapsed_time_ms = 60000,
                      !.max_avg_cpu_time_ms = 10000,
                      !.max_avg_logical_reads = 20000,
                      !.max_avg_physical_reads = 500,
                      !.max_stored_queries_per_collection = 100 ]

\* get_aggressive_thresholds()
Aggressive ==
    [ Balanced EXCEPT !.max_avg_elapsed_time_ms = 2000,
                      !.max_total_elapsed_time_ms = 60000,
                      !.max_avg_cpu_time_ms = 10000,
                      !.max_avg_logical_reads = 20000,
                      !.max_avg_physical_reads = 2000,
                      !.max_stored_queries_per_collection = 100 ]

\* PerformanceThresholds(max_stored_queries_per_collection=SmallCap): the
\* defaults with a cap small enough for a batch of the model to exceed it
SmallCapProfile ==
    [ Balanced EXCEPT !.max_stored_queries_per_collection = SmallCap ]

Thresholds(name) ==
    CASE name = "balanced" -> Balanced
      [] name = "conservative" -> Conservative
      [] name = "aggressive" -> Aggressive
      [] name = "smallcap" -> SmallCapProfile

\* A value of a raw record: a number, Python None, or text that is no number.
Num(n) == [k |-> "num", n |-> n]
NoneValue == [k |-> "none", n |-> 0]
TextValue == [k |-> "text", n |-> 0]

\* the eleven keys _is_problematic_query converts with float() / int()
NumericFields ==
    { "avg_elapsed_time_ms", "total_elapsed_time_ms", "avg_cpu_time_ms",
      "avg_logical_reads", "avg_physical_reads", "total_logical_reads",
      "total_spills", "avg_grant_kb", "execution_count",
      "buffer_hit_ratio", "cpu_efficiency_ratio" }

\* float(query_data.get(f, default)): the default is used for an absent key
\* only; a key that is present is converted whatever it holds.
Val(q, f, default) == IF f \in DOMAIN q THEN q[f].n ELSE default

\* float(None) raises TypeError, float("n/a") raises ValueError
ConversionRaises(q) == \E f \in NumericFields \cap DOMAIN q : q[f].k # "num"

\* item.get('query_hash')
HashOf(q) == IF "query_hash" \in DOMAIN q THEN q["query_hash"] ELSE PyNone

\* `if query_hash`: None and the empty string are falsy
Truthy(h) == h # PyNone /\ h # ""

\* (mutant) no record is skipped for its hash
SkipDuplicateNever(h, processed) == FALSE

\* `if query_hash and query_hash in processed_hashes: continue`
SkipDuplicate(h, processed) == Truthy(h) /\ h \in processed

\* (mutant) the hash is recorded before the record is known to be problematic
ProcessedAfterAlways(processed, h, problematic) ==
    IF Truthy(h) THEN processed \cup {h} ELSE processed

\* `if query_hash: processed_hashes.add(query_hash)`, inside the branch of a
\* problematic record
ProcessedAfter(processed, h, problematic) ==
    IF problematic /\ Truthy(h) THEN processed \cup {h} ELSE processed

\* (mutant) the halving of the limit is forgotten
FrequentSlowUnhalved(avg, cnt, th) ==
    /\ avg > th.max_avg_elapsed_time_ms
    /\ cnt > th.max_execution_count_for_slow_queries

\* avg_elapsed_time > max_avg_elapsed_time_ms / 2 and execution_count > ...
\* (a float division: avg > max / 2 is 2 * avg > max)
FrequentSlow(avg, cnt, th) ==
    /\ 2 * avg > th.max_avg_elapsed_time_ms
    /\ cnt > th.max_execution_count_for_slow_queries

Crit(cond, reason) == IF cond THEN <<reason>> ELSE <<>>

\* criteria_met as _is_problematic_query builds it (the reasons without the
\* formatted value)
criteria_met(q, th) ==
    LET avg_elapsed_time == Val(q, "avg_elapsed_time_ms", 0)
        total_elapsed_time == Val(q, "total_elapsed_time_ms", 0)
        avg_cpu_time == Val(q, "avg_cpu_time_ms", 0)
        avg_logical_reads == Val(q, "avg_logical_reads", 0)
        avg_physical_reads == Val(q, "avg_physical_reads", 0)
        total_logical_reads == Val(q, "total_logical_reads", 0)
        total_spills == Val(q, "total_spills", 0)
        avg_grant_kb == Val(q, "avg_grant_kb", 0)
        execution_count == Val(q, "execution_count", 0)
        buffer_hit_ratio == Val(q, "buffer_hit_ratio", 100)
        cpu_efficiency_ratio == Val(q, "cpu_efficiency_ratio", 100)
    IN  Crit(avg_elapsed_time > th.max_avg_elapsed_time_ms, "High avg elapsed time")
        \o Crit(total_elapsed_time > th.max_total_elapsed_time_ms, "High total elapsed time")
        \o Crit(avg_cpu_time > th.max_avg_cpu_time_ms, "High avg CPU time")
        \o Crit(avg_logical_reads > th.max_avg_logical_reads, "High avg logical reads")
        \o Crit(avg_physical_reads > th.max_avg_physical_reads, "High avg physical reads")
        \o Crit(total_logical_reads > th.max_total_logical_reads, "High total logical reads")
        \o Crit(total_spills >= th.min_spills_to_capture, "Memory spills detected")
        \o Crit(avg_grant_kb > th.max_avg_grant_kb, "High memory grant")
        \o Crit(buffer_hit_ratio < th.min_buffer_hit_ratio, "Low buffer hit ratio")
        \o Crit(cpu_efficiency_ratio < th.min_cpu_efficiency_ratio, "Low CPU efficiency")
        \o Crit(FrequentSlow(avg_elapsed_time, execution_count, th), "Frequent slow query")

\* _is_problematic_query: True iff criteria_met is not empty
is_problematic_query(q, th) == criteria_met(q, th) # <<>>

\* _log_problematic_query_reason: query_data.get('query_text', 'Unknown')[:50]
\* raises TypeError when the key holds None
LogRaises(q) == "query_text" \in DOMAIN q /\ q["query_text"] = PyNone

\* _calculate_severity_score, times 10000 so that the weights are integers:
\* 0.3*avg + 0.2*total/1000 + 0.2*reads/1000 + 1000*spills
\* + 0.3*count*avg/1000; execution_count defaults to 1 here.
calculate_severity_score(q) ==
    3000 * Val(q, "avg_elapsed_time_ms", 0)
    + 2 * Val(q, "total_elapsed_time_ms", 0)
    + 2 * Val(q, "avg_logical_reads", 0)
    + 10000000 * Val(q, "total_spills", 0)
    + 3 * Val(q, "execution_count", 1) * Val(q, "avg_elapsed_time_ms", 0)

\* (mutant) equal scores come out in reverse of the original order
KeepsPlaceReversed(scoreEarlier, scoreLater) == scoreEarlier > scoreLater

\* list.sort(key=..., reverse=True) is stable: of two entries the earlier one
\* stays in front unless the later one scores strictly higher.
KeepsPlace(scoreEarlier, scoreLater) == scoreEarlier >= scoreLater

RECURSIVE InsertBySeverity(_, _, _)
InsertBySeverity(sorted, m, batch) ==
    IF sorted = <<>> THEN <<m>>
    ELSE IF KeepsPlace(calculate_severity_score(batch[Head(sorted).idx]),
                       calculate_severity_score(batch[m.idx]))
         THEN <<Head(sorted)>> \o InsertBySeverity(Tail(sorted), m, batch)
         ELSE <<m>> \o sorted

RECURSIVE SortBySeverity(_, _)
\* problematic_queries.sort(key=self._calculate_severity_score, reverse=True)
SortBySeverity(ms, batch) ==
    IF ms = <<>> THEN <<>>
    ELSE InsertBySeverity(SortBySeverity(SubSeq(ms, 1, Len(ms) - 1), batch),
                          ms[Len(ms)], batch)

Raised == [raised |-> TRUE, out |-> <<>>]

RECURSIVE FilterLoop(_, _, _, _, _)
\* the for loop of _filter_problematic_queries from item i on; an output
\* entry is the item's position in the batch with its _problematic_criteria
FilterLoop(batch, i, th, problematic_queries, processed_hashes) ==
    IF i > Len(batch) THEN [raised |-> FALSE, out |-> problematic_queries]
    ELSE LET item == batch[i]
             query_hash == HashOf(item)
         IN  IF SkipDuplicate(query_hash, processed_hashes)
             THEN FilterLoop(batch, i + 1, th, problematic_queries, processed_hashes)
             ELSE IF ConversionRaises(item) THEN Raised
             ELSE IF is_problematic_query(item, th)
                  THEN IF LogRaises(item) THEN Raised
                       ELSE FilterLoop(batch, i + 1, th,
                                Append(problematic_queries,
                                       [idx |-> i, criteria |-> criteria_met(item, th)]),
                                ProcessedAfter(processed_hashes, query_hash, TRUE))
                  ELSE FilterLoop(batch, i + 1, th, problematic_queries,
                                ProcessedAfter(processed_hashes, query_hash, FALSE))

\* _filter_problematic_queries: the loop, then the cap
filter_problematic_queries(batch, th) ==
    LET looped == FilterLoop(batch, 1, th, <<>>, {})
        cap == th.max_stored_queries_per_collection
    IN  IF looped.raised THEN looped
        ELSE IF Len(looped.out) > cap
             THEN [raised |-> FALSE,
                   out |-> SubSeq(SortBySeverity(looped.out, batch), 1, cap)]
             ELSE looped

\* ---- the records the batches are drawn from ----
\* a complete row that fires nothing under any preset
Benign ==
    [ avg_elapsed_time_ms |-> Num(10), total_elapsed_time_ms |-> Num(50),
      avg_cpu_time_ms |-> Num(5), avg_logical_reads |-> Num(100),
      avg_physical_reads |-> Num(10), total_logical_reads |-> Num(500),
      total_spills |-> Num(0), avg_grant_kb |-> Num(1024),
      execution_count |-> Num(5), buffer_hit_ratio |-> Num(95),
      cpu_efficiency_ratio |-> Num(90), query_hash |-> PyNone,
      query_text |-> "SELECT" ]

TriageRecords ==
    { \* the two records of the scenario: only these two keys are given
      [avg_elapsed_time_ms |-> Num(1500), execution_count |-> Num(5)],
      [avg_elapsed_time_ms |-> Num(10), execution_count |-> Num(5)],
      Benign,
      [Benign EXCEPT !.query_hash = "h1"],
      \* one criterion each, at or just above a limit
      [Benign EXCEPT !.avg_elapsed_time_ms = Num(1000)],
      [Benign EXCEPT !.avg_elapsed_time_ms = Num(600), !.execution_count = Num(20),
                     !.query_hash = "h1"],
      [Benign EXCEPT !.avg_elapsed_time_ms = Num(600), !.execution_count = Num(10)],
      [Benign EXCEPT !.total_elapsed_time_ms = Num(30001)],
      [Benign EXCEPT !.avg_cpu_time_ms = Num(6000)],
      [Benign EXCEPT !.avg_logical_reads = Num(15000)],
      [Benign EXCEPT !.avg_physical_reads = Num(1000)],
      [Benign EXCEPT !.total_logical_reads = Num(1000001)],
      [Benign EXCEPT !.total_spills = Num(1), !.query_hash = "h2"],
      [Benign EXCEPT !.avg_grant_kb = Num(50001)],
      [Benign EXCEPT !.buffer_hit_ratio = Num(79)],
      [Benign EXCEPT !.cpu_efficiency_ratio = Num(49)],
      \* several criteria at once
      [Benign EXCEPT !.avg_elapsed_time_ms = Num(3000), !.total_spills = Num(2),
                     !.execution_count = Num(50), !.query_hash = "h2"],
      \* never executed
      [Benign EXCEPT !.execution_count = Num(0), !.avg_elapsed_time_ms = Num(5000),
                     !.total_spills = Num(3)],
      [Benign EXCEPT !.execution_count = Num(0)],
      \* malformed: a null, a text that is no number, missing keys
      [Benign EXCEPT !.avg_elapsed_time_ms = NoneValue],
      [Benign EXCEPT !.buffer_hit_ratio = TextValue, !.query_hash = "h1"],
      [query_hash |-> "h2", query_text |-> "SELECT"],
      [Benign EXCEPT !.avg_cpu_time_ms = Num(6000), !.query_text = PyNone] }

\* records for the cap: hashes shared, missing and empty; equal and
\* different scores
CapRecord(h, avg, spills) ==
    [Benign EXCEPT !.query_hash = h, !.avg_elapsed_time_ms = Num(avg),
                   !.total_spills = Num(spills)]

CapRecords ==
    { CapRecord("h1", 1500, 0), CapRecord("h1", 3000, 0),
      CapRecord("h2", 1500, 0), CapRecord(PyNone, 1500, 0),
      CapRecord(PyNone, 3000, 0), CapRecord("", 1500, 0),
      CapRecord("h1", 10, 0), CapRecord("h2", 10, 1),
      \* malformed
      [Benign EXCEPT !.query_hash = "h2", !.avg_cpu_time_ms = NoneValue] }

NoResult == [raised |-> FALSE, out |-> <<>>]

\* the analyzer at rest (the store's and the sampler's specifications)
TriageIdle ==
    /\ tBatch = <<>>
    /\ tProfile = "balanced"
    /\ tPc = "idle"
    /\ tResult = NoResult

\* analyze(raw_data) under one of the three presets
TriageInit ==
    /\ tBatch \in SeqsUpTo(TriageRecords, MaxTriageLen)
    /\ tProfile \in {"balanced", "conservative", "aggressive"}
    /\ tPc = "ready"
    /\ tResult = NoResult

\* analyze(raw_data) under the profile with the small cap
CapInit ==
    /\ tBatch \in SeqsUpTo(CapRecords, MaxCapLen)
    /\ tProfile = "smallcap"
    /\ tPc = "ready"
    /\ tResult = NoResult

analyze ==
    /\ tPc = "ready"
    /\ tResult' = filter_problematic_queries(tBatch, Thresholds(tProfile))
    /\ tPc' = "done"
    /\ UNCHANGED <<tBatch, tProfile, storeVars, samplerVars, coreVars>>

(***************************************************************************)
(* Sampler: PerformanceCollector over MSSQLConnector.                      *)
(***************************************************************************)
\* rows the statistics query can return
SamplerRows == {"r1", "r2"}

\* connector.get_connection() raises RuntimeError when connect() never
\* succeeded (connection is None); a statement on a connection whose server
\* is unreachable raises pyodbc.Error.
ConnectionWorks(c) == c = "up"

\* (mutant) a failed connection check leaves the collector stopped
StartedAfterFailedCheckNot == FALSE

\* start(), except branch: "Allow starting even with connection issues"
StartedAfterFailedCheck == TRUE

\* (mutant) the except branch of collect() returns None
CollectFailureNone == [kind |-> "none", data |-> <<>>]

\* collect(), except branch: return RawPerformanceData([])
CollectFailure == [kind |-> "data", data |-> <<>>]

\* collect() while not started: raise RuntimeError("Collector not started")
CollectNotStarted == [kind |-> "raised", data |-> <<>>]

NoCollect == [kind |-> "never", data |-> <<>>, started |-> FALSE, life |-> "new",
              failed |-> FALSE]

\* the collector at rest (the other specifications)
SamplerIdle ==
    /\ isStarted = FALSE
    /\ connection = "none"
    /\ startLog = "none"
    /\ collected = NoCollect
    /\ life = "new"

\* PerformanceCollector(connector) after Core._initialize_database: the
\* connector holds a connection or, when connect() raised, None
SamplerInit ==
    /\ isStarted = FALSE
    /\ connection \in {"none", "up", "down"}
    /\ startLog = "none"
    /\ collected = NoCollect
    /\ life = "new"

start ==
    /\ IF ConnectionWorks(connection)
       THEN /\ isStarted' = TRUE
            /\ startLog' = "started successfully"
       ELSE /\ isStarted' = StartedAfterFailedCheck
            /\ startLog' = "limited mode"
    /\ life' = "started"
    /\ UNCHANGED <<connection, collected, storeVars, triageVars, coreVars>>

collect ==
    /\ \E queryFails \in BOOLEAN, data \in SeqsUpTo(SamplerRows, MaxCollected) :
         LET failed == ~ConnectionWorks(connection) \/ queryFails
             answer == IF ~isStarted THEN CollectNotStarted
                       ELSE IF failed THEN CollectFailure
                       ELSE [kind |-> "data", data |-> data]
         IN  collected' = [kind |-> answer.kind, data |-> answer.data,
                           started |-> isStarted, life |-> life, failed |-> failed]
    /\ UNCHANGED <<isStarted, connection, startLog, life, storeVars, triageVars, coreVars>>

stop ==
    /\ isStarted' = FALSE
    /\ life' = "stopped"
    /\ UNCHANGED <<connection, startLog, collected, storeVars, triageVars, coreVars>>

\* the monitored server becomes unreachable, or reachable again
server_outage ==
    /\ connection = "up"
    /\ connection' = "down"
    /\ UNCHANGED <<isStarted, startLog, collected, life, storeVars, triageVars, coreVars>>

server_back ==
    /\ connection = "down"
    /\ connection' = "up"
    /\ UNCHANGED <<isStarted, startLog, collected, life, storeVars, triageVars, coreVars>>

(***************************************************************************)
(* Orchestrator: Core.start_data_collection / stop_data_collection and     *)
(* the thread running Core._collection_worker.                             *)
(***************************************************************************)
\* threads that call start_data_collection / stop_data_collection
Callers == {"c1", "c2"}

\* Thread objects start_data_collection can create
Workers == 1..MaxWorkers

\* Thread.is_alive(): started and not yet finished
Alive(w) == workerPc[w] \in {"check", "collect", "process", "wait"}

\* `self._collection_thread is None or not self._collection_thread.is_alive()`
NoLiveThread == collectionThread = 0 \/ ~Alive(collectionThread)

\* (mutant) Thread.join() without a timeout: returns once the thread is dead
JoinWithoutTimeout(targetAlive) == ~targetAlive

\* Thread.join(timeout=5) returns when the thread is dead or the timeout
\* has passed, whichever is first: it can return in either case.
JoinReturns(targetAlive) == TRUE

\* (mutant) nothing is caught inside the loop: the exception ends the thread
OnCycleExceptionDies == "dead"

\* _collection_worker, `except Exception`: print, then go on to the wait
OnCycleException == "wait"

\* (mutant) time.sleep(interval): only the interval ends the wait
PlainSleep(signalled, intervalOver) == intervalOver

\* Event.wait(interval) returns once the event is set or the interval is over
WaitReturns(signalled, intervalOver) == signalled \/ intervalOver

Call(op, how) == [op |-> op, how |-> how]

NoCall == Call("none", "none")

\* the orchestrator before any start_data_collection
LoopIdle ==
    /\ server = "up"
    /\ collectionThread = 0
    /\ stopFlag = FALSE
    /\ callerPc = [c \in Callers |-> "idle"]
    /\ workerPc = [w \in Workers |-> "new"]
    /\ nextWorker = 0
    /\ elapsed = [w \in Workers |-> FALSE]
    /\ lastCycle = [w \in Workers |-> "none"]
    /\ lastCall = NoCall

\* Core.__init__: _initialize_database connects while the server is
\* reachable, or fails (connection stays None) while it is not; the
\* collector is built stopped, the event clear, no thread.
LoopInit ==
    /\ server \in {"up", "down"}
    /\ connection = IF server = "up" THEN "up" ELSE "none"
    /\ isStarted = FALSE
    /\ startLog = "none"
    /\ collected = NoCollect
    /\ life = "new"
    /\ collectionThread = 0
    /\ stopFlag = FALSE
    /\ callerPc = [c \in Callers |-> "idle"]
    /\ workerPc = [w \in Workers |-> "new"]
    /\ nextWorker = 0
    /\ elapsed = [w \in Workers |-> FALSE]
    /\ lastCycle = [w \in Workers |-> "none"]
    /\ lastCall = NoCall

\* variables of the collector that the orchestrator's calls leave alone
samplerLogVars == <<startLog, collected, life>>

\* callers that are past the check of start_data_collection and have not
\* created their Thread yet
Spawning == { c \in Callers : callerPc[c] \in {"start_clear", "start_sampler", "start_thread"} }

\* start_data_collection, line 169: the test
start_data_collection(c) ==
    /\ callerPc[c] = "idle"
    /\ nextWorker + Cardinality(Spawning) < MaxWorkers
    /\ IF NoLiveThread
       THEN /\ callerPc' = [callerPc EXCEPT ![c] = "start_clear"]
            /\ UNCHANGED lastCall
       ELSE /\ lastCall' = Call("start", "no-op")
            /\ UNCHANGED callerPc
    /\ UNCHANGED <<server, collectionThread, stopFlag, workerPc, nextWorker,
                   elapsed, lastCycle, samplerVars, storeVars, extraVars,
                   triageVars, singletonVars, forwardVars, queryVars>>

\* line 170: self._stop_collection.clear()
start_clear(c) ==
    /\ callerPc[c] = "start_clear"
    /\ stopFlag' = FALSE
    /\ callerPc' = [callerPc EXCEPT ![c] = "start_sampler"]
    /\ UNCHANGED <<server, collectionThread, workerPc, nextWorker,
                   elapsed, lastCycle, lastCall, samplerVars, storeVars, extraVars,
                   triageVars, singletonVars, forwardVars, queryVars>>

\* line 171: self.collector.start()
start_sampler(c) ==
    /\ callerPc[c] = "start_sampler"
    /\ isStarted' = IF ConnectionWorks(connection) THEN TRUE ELSE StartedAfterFailedCheck
    /\ callerPc' = [callerPc EXCEPT ![c] = "start_thread"]
    /\ UNCHANGED <<server, collectionThread, stopFlag, workerPc,
                   nextWorker, elapsed, lastCycle, lastCall, connection,
                   samplerLogVars, storeVars, extraVars, triageVars, singletonVars,
                   forwardVars, queryVars>>

\* line 172: self._collection_thread = threading.Thread(...)
start_thread(c) ==
    /\ callerPc[c] = "start_thread"
    /\ nextWorker' = nextWorker + 1
    /\ workerPc' = [workerPc EXCEPT ![nextWorker + 1] = "created"]
    /\ collectionThread' = nextWorker + 1
    /\ callerPc' = [callerPc EXCEPT ![c] = "start_run"]
    /\ UNCHANGED <<server, stopFlag, elapsed, lastCycle,
                   lastCall, samplerVars, storeVars, extraVars, triageVars, singletonVars,
                   forwardVars, queryVars>>

\* line 173: self._collection_thread.start(), on whatever Thread the
\* attribute holds by now; a Thread that was already started raises
\* RuntimeError ("threads can only be started once").
start_run(c) ==
    /\ callerPc[c] = "start_run"
    /\ IF workerPc[collectionThread] = "created"
       THEN /\ workerPc' = [workerPc EXCEPT ![collectionThread] = "check"]
            /\ lastCall' = Call("start", "started")
       ELSE /\ lastCall' = Call("start", "raised")
            /\ UNCHANGED workerPc
    /\ callerPc' = [callerPc EXCEPT ![c] = "idle"]
    /\ UNCHANGED <<server, collectionThread, stopFlag, nextWorker, elapsed,
                   lastCycle, samplerVars, storeVars, extraVars, triageVars,
                   singletonVars, forwardVars, queryVars>>

\* stop_data_collection, line 178: the test
stop_data_collection(c) ==
    /\ callerPc[c] = "idle"
    /\ IF ~NoLiveThread
       THEN /\ callerPc' = [callerPc EXCEPT ![c] = "stop_set"]
            /\ UNCHANGED lastCall
       ELSE /\ lastCall' = Call("stop", "no-op")
            /\ UNCHANGED callerPc
    /\ UNCHANGED <<server, collectionThread, stopFlag, workerPc, nextWorker,
                   elapsed, lastCycle, samplerVars, storeVars, extraVars,
                   triageVars, singletonVars, forwardVars, queryVars>>

\* line 179: self._stop_collection.set()
stop_set(c) ==
    /\ callerPc[c] = "stop_set"
    /\ stopFlag' = TRUE
    /\ callerPc' = [callerPc EXCEPT ![c] = "stop_sampler"]
    /\ UNCHANGED <<server, collectionThread, workerPc, nextWorker,
                   elapsed, lastCycle, lastCall, samplerVars, storeVars, extraVars,
                   triageVars, singletonVars, forwardVars, queryVars>>

\* line 180: self.collector.stop()
stop_sampler(c) ==
    /\ callerPc[c] = "stop_sampler"
    /\ isStarted' = FALSE
    /\ callerPc' = [callerPc EXCEPT ![c] = "stop_join"]
    /\ UNCHANGED <<server, collectionThread, stopFlag, workerPc,
                   nextWorker, elapsed, lastCycle, lastCall, connection,
                   samplerLogVars, storeVars, extraVars, triageVars, singletonVars,
                   forwardVars, queryVars>>

\* line 181: self._collection_thread.join(timeout=5), on whatever Thread the
\* attribute holds by now; a Thread not yet started raises RuntimeError
\* ("cannot join thread before it is started").
stop_join(c) ==
    /\ callerPc[c] = "stop_join"
    /\ \/ workerPc[collectionThread] = "created"
       \/ JoinReturns(Alive(collectionThread))
    /\ lastCall' = Call("stop",
                        IF workerPc[collectionThread] = "created" THEN "raised"
                        ELSE IF Alive(collectionThread) THEN "timed out"
                        ELSE "joined")
    /\ callerPc' = [callerPc EXCEPT ![c] = "idle"]
    /\ UNCHANGED <<server, collectionThread, stopFlag, workerPc, nextWorker,
                   elapsed, lastCycle, samplerVars, storeVars, extraVars,
                   triageVars, singletonVars, forwardVars, queryVars>>

\* _collection_worker, line 186: `while not self._stop_collection.is_set()`
loop_check(w) ==
    /\ workerPc[w] = "check"
    /\ workerPc' = [workerPc EXCEPT ![w] = IF stopFlag THEN "dead" ELSE "collect"]
    /\ elapsed' = [elapsed EXCEPT ![w] = FALSE]
    /\ UNCHANGED <<server, collectionThread, stopFlag, callerPc,
                   nextWorker, lastCycle, lastCall, samplerVars,
                   storeVars, extraVars, triageVars, singletonVars, forwardVars, queryVars>>

\* how a cycle that ended is recorded: "raised", "fine" or, for a cycle
\* that did not raise after one that did, "recovered"
CycleEnds(w, raised) ==
    lastCycle' = [lastCycle EXCEPT ![w] =
                     IF raised THEN "raised"
                     ELSE IF lastCycle[w] \in {"raised", "recovered"} THEN "recovered"
                     ELSE "fine"]

\* lines 189-196: collector.collect(), which raises when the collector is
\* not started and answers an empty batch when the connection or the query
\* fails; an empty batch ends the cycle.
cycle_collect(w) ==
    /\ workerPc[w] = "collect"
    /\ \E queryFails \in BOOLEAN, data \in SeqsUpTo(SamplerRows, 1) :
         LET failed == ~ConnectionWorks(connection) \/ queryFails
             answer == IF ~isStarted THEN CollectNotStarted
                       ELSE IF failed THEN CollectFailure
                       ELSE [kind |-> "data", data |-> data]
         IN  IF answer.kind = "raised"
             THEN /\ workerPc' = [workerPc EXCEPT ![w] = OnCycleException]
                  /\ CycleEnds(w, TRUE)
             ELSE IF answer.kind = "data" /\ answer.data # <<>>
             THEN /\ workerPc' = [workerPc EXCEPT ![w] = "process"]
                  /\ UNCHANGED lastCycle
             ELSE /\ workerPc' = [workerPc EXCEPT ![w] = "wait"]
                  /\ CycleEnds(w, FALSE)
    /\ UNCHANGED <<server, collectionThread, stopFlag, callerPc,
                   nextWorker, elapsed, lastCall, samplerVars, storeVars, extraVars,
                   triageVars, singletonVars, forwardVars, queryVars>>

\* line 193: analyzer.process_data(collected_data): triage, which raises on
\* a malformed field, then save_metrics, which answers False on failure.
cycle_process(w) ==
    /\ workerPc[w] = "process"
    /\ \E triageRaises \in BOOLEAN :
         IF triageRaises
         THEN /\ workerPc' = [workerPc EXCEPT ![w] = OnCycleException]
              /\ CycleEnds(w, TRUE)
         ELSE /\ workerPc' = [workerPc EXCEPT ![w] = "wait"]
              /\ CycleEnds(w, FALSE)
    /\ UNCHANGED <<server, collectionThread, stopFlag, callerPc,
                   nextWorker, elapsed, lastCall, samplerVars, storeVars, extraVars,
                   triageVars, singletonVars, forwardVars, queryVars>>

\* the collection interval passes while the worker waits
interval_over(w) ==
    /\ workerPc[w] = "wait"
    /\ ~elapsed[w]
    /\ elapsed' = [elapsed EXCEPT ![w] = TRUE]
    /\ UNCHANGED <<server, collectionThread, stopFlag, callerPc,
                   workerPc, nextWorker, lastCycle, lastCall,
                   samplerVars, storeVars, extraVars, triageVars, singletonVars,
                   forwardVars, queryVars>>

\* line 204: self._stop_collection.wait(self._collection_interval) returns
wait_returns(w) ==
    /\ workerPc[w] = "wait"
    /\ WaitReturns(stopFlag, elapsed[w])
    /\ workerPc' = [workerPc EXCEPT ![w] = "check"]
    /\ UNCHANGED <<server, collectionThread, stopFlag, callerPc,
                   nextWorker, elapsed, lastCycle, lastCall,
                   samplerVars, storeVars, extraVars, triageVars, singletonVars,
                   forwardVars, queryVars>>

\* the monitored server becomes unreachable: an open connection stops working
source_outage ==
    /\ server = "up"
    /\ server' = "down"
    /\ connection' = IF connection = "up" THEN "down" ELSE connection
    /\ UNCHANGED <<collectionThread, stopFlag, callerPc, workerPc,
                   nextWorker, elapsed, lastCycle, lastCall, isStarted,
                   samplerLogVars, storeVars, extraVars, triageVars, singletonVars,
                   forwardVars, queryVars>>

\* the server is reachable again: an open connection works again, None stays
\* None (nothing calls connector.connect() after Core.__init__)
source_back ==
    /\ server = "down"
    /\ server' = "up"
    /\ connection' = IF connection = "down" THEN "up" ELSE connection
    /\ UNCHANGED <<collectionThread, stopFlag, callerPc, workerPc,
                   nextWorker, elapsed, lastCycle, lastCall, isStarted,
                   samplerLogVars, storeVars, extraVars, triageVars, singletonVars,
                   forwardVars, queryVars>>

(***************************************************************************)
(* Orchestrator: the singleton, Core.get_instance.                         *)
(***************************************************************************)
\* threads that call Core.get_instance()
GetThreads == {"t1", "t2", "t3"}

SingletonIdle ==
    /\ instance = 0
    /\ constructed = 0
    /\ getPc = [t \in GetThreads |-> "idle"]
    /\ getLocal = [t \in GetThreads |-> 0]
    /\ getRet = [t \in GetThreads |-> 0]

\* the class after import: _instance = None
SingletonInit == SingletonIdle

\* line 29: `if cls._instance is None`, with no lock held
get_instance(t) ==
    /\ getPc[t] \in {"idle", "returned"}
    /\ getPc' = [getPc EXCEPT ![t] = IF instance = 0 THEN "construct" ELSE "return"]
    /\ UNCHANGED <<instance, constructed, getLocal, getRet, loopVars, forwardVars,
                   queryVars, storeVars, extraVars, triageVars, samplerVars>>

\* line 30, right-hand side: Core(), which connects to the databases
get_instance_construct(t) ==
    /\ getPc[t] = "construct"
    /\ constructed' = constructed + 1
    /\ getLocal' = [getLocal EXCEPT ![t] = constructed + 1]
    /\ getPc' = [getPc EXCEPT ![t] = "assign"]
    /\ UNCHANGED <<instance, getRet, loopVars, forwardVars, queryVars, storeVars, extraVars,
                   triageVars, samplerVars>>

\* line 30, the assignment to cls._instance
get_instance_assign(t) ==
    /\ getPc[t] = "assign"
    /\ instance' = getLocal[t]
    /\ getPc' = [getPc EXCEPT ![t] = "return"]
    /\ UNCHANGED <<constructed, getLocal, getRet, loopVars, forwardVars, queryVars,
                   storeVars, extraVars, triageVars, samplerVars>>

\* line 31: return cls._instance
get_instance_return(t) ==
    /\ getPc[t] = "return"
    /\ getRet' = [getRet EXCEPT ![t] = instance]
    /\ getPc' = [getPc EXCEPT ![t] = "returned"]
    /\ UNCHANGED <<instance, constructed, getLocal, loopVars, forwardVars,
                   queryVars, storeVars, extraVars, triageVars, samplerVars>>

(***************************************************************************)
(* Orchestrator: construction (initialize_rabbitmq, add_observer) and the  *)
(* store observer Core._on_new_data.                                       *)
(***************************************************************************)
\* MQBridge defines connect, disconnect, declare_queue, send_message,
\* subscribe, start_consuming, stop_consuming: no is_connected
MQBridgeHasIsConnected == FALSE

\* initialize_rabbitmq: what self.mq_bridge holds afterwards.  connect() or
\* declare_queue() raising, and the verification of line 101 failing, all
\* end in the except clause, which sets self.mq_bridge = None.
initialize_rabbitmq(connectOk, declareOk) ==
    IF connectOk /\ declareOk /\ MQBridgeHasIsConnected THEN "bridge" ELSE "none"

NoMqConfig == [enabled |-> FALSE, connectOk |-> FALSE, declareOk |-> FALSE]

ForwardIdle ==
    /\ corePc = "new"
    /\ mqConfig = NoMqConfig
    /\ mq_bridge = "none"
    /\ coreObservers = <<>>
    /\ guiCache = <<>>
    /\ published = <<>>
    /\ forwardLog = <<>>

ForwardInit == ForwardIdle

\* Core.__init__, lines 44-69: mq_bridge = None, initialize_rabbitmq() when
\* the configuration enables it, then add_observer(self._on_new_data)
core_init ==
    /\ corePc = "new"
    /\ \E enabled, connectOk, declareOk \in BOOLEAN :
         /\ mqConfig' = [enabled |-> enabled, connectOk |-> connectOk,
                         declareOk |-> declareOk]
         /\ mq_bridge' = IF enabled THEN initialize_rabbitmq(connectOk, declareOk)
                         ELSE "none"
    /\ coreObservers' = <<"_on_new_data">>
    /\ corePc' = "ready"
    /\ UNCHANGED <<guiCache, published, forwardLog, loopVars, singletonVars,
                   queryVars, storeVars, extraVars, triageVars, samplerVars>>

\* batches the repository hands to its observers after a commit
ForwardBatches ==
    { <<Metric("q1", "h1", TRUE)>>,
      <<Metric("q1", "h1", TRUE), Metric("q2", "h2", TRUE)>> }

\* what _on_new_data sends through self.mq_bridge: nothing (no statement of
\* Core calls send_message)
PublishedBy(batch, bridge) == <<>>

\* the repository committed `batch` and calls Core's observer:
\* _on_new_data, lines 144-152.  add_new_data may raise before or after
\* it extended the cache; the except clause prints and returns.
on_new_data(batch) ==
    /\ corePc = "ready"
    /\ Len(forwardLog) < MaxForwarded
    /\ InSeq("_on_new_data", coreObservers)
    /\ \E guiRaises, cached \in BOOLEAN :
         /\ guiCache' = IF ~guiRaises \/ cached
                        THEN Append(guiCache, batch) ELSE guiCache
         /\ published' = published \o PublishedBy(batch, mq_bridge)
         /\ forwardLog' = Append(forwardLog,
                [batch |-> batch,
                 dashboard |-> TRUE,
                 guiRaised |-> guiRaises,
                 sent |-> PublishedBy(batch, mq_bridge) # <<>>,
                 propagated |-> FALSE])
    /\ UNCHANGED <<corePc, mqConfig, mq_bridge, coreObservers, loopVars,
                   singletonVars, queryVars, storeVars, extraVars, triageVars, samplerVars>>

(***************************************************************************)
(* Store queries: get_latest_metrics over rows stamped with created_at.    *)
(***************************************************************************)
\* a row of custom_metrics with the column created_at
StoredRow(m, id, at) == [id |-> id, text |-> m.text, hash |-> m.hash, created_at |-> at]

\* metrics that save_metrics stores
CompleteMetrics == { m \in StoreMetrics : ~InsertRaises(m) }

NoQuery == [kind |-> "none", limit |-> 0, of |-> <<>>, out |-> <<>>]

QueryIdle ==
    /\ qRows = <<>>
    /\ qClock = 0
    /\ qResult = NoQuery

QueryInit == QueryIdle

\* a successful save_metrics (one transaction): every row takes the next id
\* and created_at DEFAULT CURRENT_TIMESTAMP
q_save_metrics(batch) ==
    /\ batch # <<>>
    /\ Len(qRows) + Len(batch) <= MaxRows
    /\ qRows' = qRows \o [i \in 1..Len(batch) |->
                            StoredRow(batch[i], Len(qRows) + i, qClock)]
    /\ UNCHANGED <<qClock, qResult, loopVars, singletonVars, forwardVars,
                   storeVars, extraVars, triageVars, samplerVars>>

\* a second passes
q_tick ==
    /\ qClock < MaxClock
    /\ qClock' = qClock + 1
    /\ UNCHANGED <<qRows, qResult, loopVars, singletonVars, forwardVars,
                   storeVars, extraVars, triageVars, samplerVars>>

\* (mutant) ORDER BY created_at DESC through a sort that leaves rows of one
\* second in table order
SorterBefore(a, b) ==
    a.created_at > b.created_at \/ (a.created_at = b.created_at /\ a.id < b.id)

\* ORDER BY created_at DESC read off idx_created_at backwards: the index is
\* ordered by (created_at, rowid), so rows of one second come newest id first
IndexBefore(a, b) ==
    a.created_at > b.created_at \/ (a.created_at = b.created_at /\ a.id > b.id)

RECURSIVE InsertOrdered(_, _)
InsertOrdered(sorted, r) ==
    IF sorted = <<>> THEN <<r>>
    ELSE IF IndexBefore(r, Head(sorted)) THEN <<r>> \o sorted
    ELSE <<Head(sorted)>> \o InsertOrdered(Tail(sorted), r)

RECURSIVE OrderByCreatedAtDesc(_)
OrderByCreatedAtDesc(table) ==
    IF table = <<>> THEN <<>>
    ELSE InsertOrdered(OrderByCreatedAtDesc(Tail(table)), Head(table))

\* LIMIT ?: a negative limit means no limit
SqlLimit(s, limit) ==
    IF limit < 0 \/ limit >= Len(s) THEN s ELSE SubSeq(s, 1, limit)

\* list.reverse()
Reversed(s) == [i \in 1..Len(s) |-> s[Len(s) + 1 - i]]

\* get_latest_metrics(limit): SELECT ... ORDER BY created_at DESC LIMIT ?,
\* then metrics.reverse()
get_latest_metrics(table, limit) ==
    Reversed(SqlLimit(OrderByCreatedAtDesc(table), limit))

q_get_latest_metrics(limit) ==
    /\ qResult' = [kind |-> "latest", limit |-> limit, of |-> qRows,
                   out |-> get_latest_metrics(qRows, limit)]
    /\ UNCHANGED <<qRows, qClock, loopVars, singletonVars, forwardVars,
                   storeVars, extraVars, triageVars, samplerVars>>

\* (mutant) ORDER BY created_at ASC with the rows of one second newest first
AscNewestFirst(a, b) ==
    a.created_at < b.created_at \/ (a.created_at = b.created_at /\ a.id > b.id)

\* ORDER BY created_at ASC read off idx_created_at forwards: rows of one
\* second come in rowid order
AscIndexBefore(a, b) ==
    a.created_at < b.created_at \/ (a.created_at = b.created_at /\ a.id < b.id)

RECURSIVE InsertAscending(_, _)
InsertAscending(sorted, r) ==
    IF sorted = <<>> THEN <<r>>
    ELSE IF AscIndexBefore(r, Head(sorted)) THEN <<r>> \o sorted
    ELSE <<Head(sorted)>> \o InsertAscending(Tail(sorted), r)

RECURSIVE OrderByCreatedAtAsc(_)
OrderByCreatedAtAsc(table) ==
    IF table = <<>> THEN <<>>
    ELSE InsertAscending(OrderByCreatedAtAsc(Tail(table)), Head(table))

\* get_all_metrics(): SELECT ... ORDER BY created_at ASC, rows in that order
get_all_metrics(table) == OrderByCreatedAtAsc(table)

q_get_all_metrics ==
    /\ qResult' = [kind |-> "all", limit |-> 0, of |-> qRows,
                   out |-> get_all_metrics(qRows)]
    /\ UNCHANGED <<qRows, qClock, loopVars, singletonVars, forwardVars,
                   storeVars, extraVars, triageVars, samplerVars>>

(***************************************************************************)
(* Store maintenance: cleanup_old_metrics and remove_duplicate_queries.    *)
(***************************************************************************)
\* a datetime: a day, written with two digits, and the microseconds within
\* it, written with one; the clock starts at FirstTime
FirstTime == [day |-> 10, us |-> 0]

Times == [day : FirstTime.day..(FirstTime.day + MaxDay), us : {0, 5}]

\* t1 < t2 on datetime values
Earlier(t1, t2) == t1.day < t2.day \/ (t1.day = t2.day /\ t1.us < t2.us)

\* t - timedelta(days=days)
MinusDays(t, days) == [day |-> t.day - days, us |-> t.us]

\* a character of a str, as its code point
Digit(d) == CodeOfZero + d

\* datetime.isoformat(): the date, then the fraction, which is left out
\* when microsecond is 0
isoformat(t) ==
    <<Digit(t.day \div 10), Digit(t.day % 10)>>
        \o (IF t.us = 0 THEN <<>> ELSE <<CodeOfDot, Digit(t.us)>>)

RECURSIVE StrLess(_, _)
\* a < b on TEXT values (memcmp, then the shorter one first)
StrLess(a, b) ==
    IF b = <<>> THEN FALSE
    ELSE IF a = <<>> THEN TRUE
    ELSE IF Head(a) # Head(b) THEN Head(a) < Head(b)
    ELSE StrLess(Tail(a), Tail(b))

\* (mutant) WHERE timestamp <= ?
AtOrBeforeCutoff(timestamp, cutoff) == StrLess(timestamp, cutoff) \/ timestamp = cutoff

\* WHERE timestamp < ? with cutoff_date.isoformat()
BeforeCutoff(timestamp, cutoff) == StrLess(timestamp, cutoff)

\* the metrics handed to save_metrics before maintenance
MaintMetrics ==
    { Metric("q1", "h1", TRUE), Metric("q2", "h2", TRUE),
      Metric("q1", NullHash, TRUE), Metric("q2", NullHash, TRUE) }

\* the INSERT: query_hash is NOT NULL in the table _init_database creates;
\* CREATE TABLE IF NOT EXISTS leaves a table that is already there as it is
MaintInsertRaises(m, schema) ==
    ~m.complete \/ (schema = "not null" /\ m.hash = NullHash)

\* a row of custom_metrics with the column timestamp
MaintRow(m, id, t) ==
    [id |-> id, text |-> m.text, hash |-> m.hash, timestamp |-> isoformat(t)]

NoMaint == [op |-> "none", days |-> 0, before |-> <<>>, after |-> <<>>,
            ret |-> "none", again |-> FALSE, firstRemoved |-> 0]

\* the store at rest (the other specifications)
MaintIdle ==
    /\ mSchema = "not null"
    /\ mRows = <<>>
    /\ mNextId = 1
    /\ mNow = FirstTime
    /\ mLast = NoMaint

MaintInit ==
    /\ mSchema \in {"not null", "nullable"}
    /\ mRows = <<>>
    /\ mNextId = 1
    /\ mNow = FirstTime
    /\ mLast = NoMaint

\* save_metrics of a batch the analyzer stamped with datetime.now(): one
\* transaction, rolled back when an INSERT raises
m_save_metrics(batch) ==
    /\ batch # <<>>
    /\ mNextId + Len(batch) - 1 <= MaxStored
    /\ IF \E i \in 1..Len(batch) : MaintInsertRaises(batch[i], mSchema)
       THEN UNCHANGED <<mRows, mNextId>>
       ELSE /\ mRows' = mRows \o [i \in 1..Len(batch) |->
                                    MaintRow(batch[i], mNextId + i - 1, mNow)]
            /\ mNextId' = mNextId + Len(batch)
    /\ mLast' = NoMaint
    /\ UNCHANGED <<mSchema, mNow, textVars, loopVars, singletonVars, forwardVars,
                   queryVars, storeVars, triageVars, samplerVars>>

\* time passes
m_tick ==
    /\ \E t \in Times : Earlier(mNow, t) /\ mNow' = t
    /\ mLast' = NoMaint
    /\ UNCHANGED <<mSchema, mRows, mNextId, textVars, loopVars, singletonVars,
                   forwardVars, queryVars, storeVars, triageVars, samplerVars>>

\* how a maintenance call is recorded: again says that the call before it
\* was the same call, with nothing in between
MaintCall(op, days, after) ==
    LET again == mLast.op = op /\ mLast.days = days
    IN  [op |-> op, days |-> days, before |-> mRows, after |-> after,
         ret |-> "true", again |-> again,
         firstRemoved |-> IF again THEN Len(mLast.before) - Len(mLast.after) ELSE 0]

\* cleanup_old_metrics(days_to_keep): count the rows WHERE timestamp < ?,
\* delete them when there are any, return True
cleanup_old_metrics(days_to_keep) ==
    /\ mNow.day - days_to_keep >= FirstTime.day
    /\ LET cutoff_date == MinusDays(mNow, days_to_keep)
           Old(r) == BeforeCutoff(r.timestamp, isoformat(cutoff_date))
           count_to_delete == Len(SelectSeq(mRows, Old))
           Kept(r) == ~Old(r)
           after == IF count_to_delete > 0 THEN SelectSeq(mRows, Kept) ELSE mRows
       IN  /\ mRows' = after
           /\ mLast' = MaintCall("cleanup", days_to_keep, after)
    /\ UNCHANGED <<mSchema, mNextId, mNow, textVars, loopVars, singletonVars,
                   forwardVars, queryVars, storeVars, triageVars, samplerVars>>

SeqRange(s) == { s[i] : i \in 1..Len(s) }

\* (mutant) of each group only the row with the lowest id is dropped
AllButLowestId(rs, key) ==
    { x.id : x \in { r \in SeqRange(rs) :
                       \/ \E y \in SeqRange(rs) : y[key] = r[key] /\ y.id < r.id
                       \/ \A y \in SeqRange(rs) : y[key] = r[key] => y.id = r.id } }

\* SELECT MAX(id) FROM ... GROUP BY key
MaxIdPerGroup(rs, key) ==
    { x.id : x \in { r \in SeqRange(rs) :
                       \A y \in SeqRange(rs) : y[key] = r[key] => y.id <= r.id } }

\* remove_duplicate_queries(): COUNT(*) - COUNT(DISTINCT query_hash) over the
\* rows with a hash; when it is positive, the two DELETE statements
remove_duplicates(table) ==
    LET HasHash(r) == r.hash # NullHash
        NoHash(r) == r.hash = NullHash
        hashed == SelectSeq(table, HasHash)
        duplicate_count == Len(hashed) - Cardinality({ r.hash : r \in SeqRange(hashed) })
        keptHashed == MaxIdPerGroup(hashed, "hash")
        AfterFirst(r) == ~(r.id \notin keptHashed /\ HasHash(r))
        first == SelectSeq(table, AfterFirst)
        keptNull == MaxIdPerGroup(SelectSeq(first, NoHash), "text")
        AfterSecond(r) == ~(r.id \notin keptNull /\ NoHash(r))
    IN  IF duplicate_count > 0 THEN SelectSeq(first, AfterSecond) ELSE table

remove_duplicate_queries ==
    /\ mRows' = remove_duplicates(mRows)
    /\ mLast' = MaintCall("dedup", 0, remove_duplicates(mRows))
    /\ UNCHANGED <<mSchema, mNextId, mNow, textVars, loopVars, singletonVars,
                   forwardVars, queryVars, storeVars, triageVars, samplerVars>>

(***************************************************************************)
(* Store text fields: compress_data on the way in, _decompress_text_field  *)
(* on the way out.                                                         *)
(***************************************************************************)
\* Python values of the two fields: a str, a bytes object or None; the
\* characters are code points below 128, one byte each in UTF-8
Str(chars) == [type |-> "str", data |-> chars]
Bytes(data) == [type |-> "bytes", data |-> data]
NoneObject == [type |-> "none", data |-> <<>>]

\* the strings the fields are drawn from: '', 'a', 'xa' and 'None'
NoneText == <<78, 111, 110, 101>>

TextValues == { <<>>, <<CodeOfA>>, <<CodeOfX, CodeOfA>>, NoneText }

\* str(v): the string itself, or 'None' for None
str(v) == IF v.type = "none" THEN Str(NoneText) ELSE Str(v.data)

\* s.encode('utf-8')
encode(s) == Bytes(s.data)

\* b.decode('utf-8', errors='ignore'): bytes that are no UTF-8 are dropped
IsAscii(c) == c < 128
decode(b) == Str(SelectSeq(b.data, IsAscii))

RECURSIVE SumOf(_)
SumOf(s) == IF s = <<>> THEN 0 ELSE Head(s) + SumOf(Tail(s))

\* the checksum that ends a zlib stream
Adler(data) == (1 + SumOf(data)) % 251

\* compress_data: zlib.compress(data, level=9): the header 78 DA, the
\* deflated data (here: the data) and the checksum
compress_data(b) == Bytes(<<ZlibCMF, ZlibFLG>> \o b.data \o <<Adler(b.data)>>)

\* zlib.decompress accepts the stream: the header and the checksum are right
IsZlibStream(b) ==
    /\ Len(b.data) >= 3
    /\ b.data[1] = ZlibCMF
    /\ b.data[2] = ZlibFLG
    /\ b.data[Len(b.data)] = Adler(SubSeq(b.data, 3, Len(b.data) - 1))

\* decompress_data, for a stream zlib accepts
decompress_data(b) == Bytes(SubSeq(b.data, 3, Len(b.data) - 1))

\* _decompress_text_field(data)
decompress_text_field(data) ==
    IF data.type = "none" THEN Str(<<>>)
    ELSE IF data.type = "bytes"
         THEN IF IsZlibStream(data) THEN decode(decompress_data(data)) ELSE decode(data)
    ELSE Str(data.data)

\* the records handed to save_metrics: query_text a str, query_plan a str,
\* None, or no such key
TextItems ==
    { [query_text |-> Str(t)] : t \in TextValues }
        \cup { [query_text |-> Str(t), query_plan |-> p] :
                 t \in TextValues, p \in { Str(x) : x \in TextValues } \cup {NoneObject} }

\* item.get('query_plan', '')
PlanOf(item) == IF "query_plan" \in DOMAIN item THEN item.query_plan ELSE Str(<<>>)

NoRow == [kind |-> "none", query_text |-> NoneObject, query_plan |-> NoneObject,
          text |-> <<>>, plan |-> <<>>, planGiven |-> FALSE]

NoRead == [op |-> "none", query_text |-> NoneObject, query_plan |-> NoneObject]

\* the store at rest (the other specifications)
TextIdle ==
    /\ zRow = NoRow
    /\ zRead = NoRead

TextInit == TextIdle

\* save_metrics, lines 199-200: the two columns of the row it inserts; text
\* and plan keep the strings the caller handed over
z_save_metrics(item) ==
    /\ zRow' = [kind |-> "new",
                query_text |-> compress_data(encode(str(item.query_text))),
                query_plan |-> compress_data(encode(str(PlanOf(item)))),
                text |-> item.query_text.data,
                plan |-> IF PlanOf(item).type = "str" THEN PlanOf(item).data ELSE <<>>,
                planGiven |-> PlanOf(item).type = "str" /\ "query_plan" \in DOMAIN item]
    /\ zRead' = NoRead
    /\ UNCHANGED <<maintVars, loopVars, singletonVars, forwardVars, queryVars,
                   storeVars, triageVars, samplerVars>>

\* a row written before the fields were compressed: the text as bytes or
\* as TEXT, the plan likewise or NULL
z_legacy_row(text, plan, asBytes, planIsNull) ==
    /\ zRow' = [kind |-> "legacy",
                query_text |-> IF asBytes THEN encode(Str(text)) ELSE Str(text),
                query_plan |-> IF planIsNull THEN NoneObject
                               ELSE IF asBytes THEN encode(Str(plan)) ELSE Str(plan),
                text |-> text,
                plan |-> IF planIsNull THEN <<>> ELSE plan,
                planGiven |-> ~planIsNull]
    /\ zRead' = NoRead
    /\ UNCHANGED <<maintVars, loopVars, singletonVars, forwardVars, queryVars,
                   storeVars, triageVars, samplerVars>>

ReadOperations == {"get_all_metrics", "get_metrics_by_timerange", "get_latest_metrics"}

\* a read operation builds the record of the row: rows 14 and 15 go through
\* _decompress_text_field
z_read(op) ==
    /\ zRow.kind # "none"
    /\ zRead' = [op |-> op,
                 query_text |-> decompress_text_field(zRow.query_text),
                 query_plan |-> decompress_text_field(zRow.query_plan)]
    /\ UNCHANGED <<zRow, maintVars, loopVars, singletonVars, forwardVars, queryVars,
                   storeVars, triageVars, samplerVars>>

(***************************************************************************)
(* Specifications.                                                         *)
(***************************************************************************)
\* the orchestrator at rest (the other specifications)
\* maintenance and the text fields at rest
ExtraIdle == MaintIdle /\ TextIdle

CoreIdle == LoopIdle /\ SingletonIdle /\ ForwardIdle /\ QueryIdle /\ ExtraIdle

InitTriage == StoreInit /\ TriageInit /\ SamplerIdle /\ CoreIdle

InitCap == StoreInit /\ CapInit /\ SamplerIdle /\ CoreIdle

NextTriage == analyze

SpecTriage == InitTriage /\ [][NextTriage]_vars

SpecCap == InitCap /\ [][NextTriage]_vars

InitSampler == StoreInit /\ TriageIdle /\ SamplerInit /\ CoreIdle

NextSampler ==
    \/ start
    \/ collect
    \/ stop
    \/ server_outage
    \/ server_back

SpecSampler == InitSampler /\ [][NextSampler]_vars

Init == StoreInit /\ TriageIdle /\ SamplerIdle /\ CoreIdle

Next ==
    \/ \E o \in ObserverIds : add_observer(o)
    \/ \E o \in ObserverIds : remove_observer(o)
    \/ \E b \in SeqsUpTo(StoreMetrics, MaxBatch) : save_metrics_call(b)
    \/ save_metrics_insert
    \/ save_metrics_commit
    \/ notify_observers_step
    \/ save_metrics_return
    \/ read_concurrent

Spec == Init /\ [][Next]_vars

InitLoop ==
    StoreInit /\ TriageIdle /\ LoopInit /\ SingletonIdle /\ ForwardIdle /\ QueryIdle
        /\ ExtraIdle

CallerStep(c) ==
    \/ start_clear(c)
    \/ start_sampler(c)
    \/ start_thread(c)
    \/ start_run(c)
    \/ stop_set(c)
    \/ stop_sampler(c)
    \/ stop_join(c)

WorkerStep(w) ==
    \/ loop_check(w)
    \/ cycle_collect(w)
    \/ cycle_process(w)
    \/ wait_returns(w)

NextLoop ==
    \/ \E c \in Callers : start_data_collection(c)
    \/ \E c \in Callers : stop_data_collection(c)
    \/ \E c \in Callers : start_clear(c)
    \/ \E c \in Callers : start_sampler(c)
    \/ \E c \in Callers : start_thread(c)
    \/ \E c \in Callers : start_run(c)
    \/ \E c \in Callers : stop_set(c)
    \/ \E c \in Callers : stop_sampler(c)
    \/ \E c \in Callers : stop_join(c)
    \/ \E w \in Workers : loop_check(w)
    \/ \E w \in Workers : cycle_collect(w)
    \/ \E w \in Workers : cycle_process(w)
    \/ \E w \in Workers : interval_over(w)
    \/ \E w \in Workers : wait_returns(w)
    \/ source_outage
    \/ source_back

\* the orchestrator's threads, scheduled or not
SpecLoop == InitLoop /\ [][NextLoop]_vars

\* a thread that called stop_data_collection keeps running; nothing is
\* assumed about the worker or the clock
SpecLoopCallers ==
    InitLoop /\ [][NextLoop]_vars /\ \A c \in Callers : WF_vars(CallerStep(c))

\* every started thread keeps running and time passes
SpecLoopFair ==
    /\ InitLoop
    /\ [][NextLoop]_vars
    /\ \A c \in Callers : WF_vars(CallerStep(c))
    /\ \A w \in Workers : WF_vars(WorkerStep(w))
    /\ \A w \in Workers : WF_vars(interval_over(w))

InitSingleton ==
    StoreInit /\ TriageIdle /\ SamplerIdle /\ LoopIdle /\ SingletonInit
        /\ ForwardIdle /\ QueryIdle /\ ExtraIdle

NextSingleton ==
    \/ \E t \in GetThreads : get_instance(t)
    \/ \E t \in GetThreads : get_instance_construct(t)
    \/ \E t \in GetThreads : get_instance_assign(t)
    \/ \E t \in GetThreads : get_instance_return(t)

SpecSingleton == InitSingleton /\ [][NextSingleton]_vars

InitForward ==
    StoreInit /\ TriageIdle /\ SamplerIdle /\ LoopIdle /\ SingletonIdle
        /\ ForwardInit /\ QueryIdle /\ ExtraIdle

NextForward ==
    \/ core_init
    \/ \E b \in ForwardBatches : on_new_data(b)

SpecForward == InitForward /\ [][NextForward]_vars

InitQuery ==
    StoreInit /\ TriageIdle /\ SamplerIdle /\ LoopIdle /\ SingletonIdle
        /\ ForwardIdle /\ QueryInit /\ ExtraIdle

NextQuery ==
    \/ \E b \in SeqsUpTo(CompleteMetrics, MaxQueryBatch) : q_save_metrics(b)
    \/ q_tick
    \/ \E limit \in (-1)..MaxLimit : q_get_latest_metrics(limit)
    \/ q_get_all_metrics

SpecQuery == InitQuery /\ [][NextQuery]_vars

\* the store with observers that change the registry while they are notified
NextReentrant ==
    \/ \E o \in ObserverIds : add_observer(o)
    \/ \E o \in ObserverIds : remove_observer(o)
    \/ \E b \in SeqsUpTo(StoreMetrics, MaxBatch) : save_metrics_call(b)
    \/ save_metrics_insert
    \/ save_metrics_commit
    \/ notify_observers_step
    \/ notify_observers_reentrant
    \/ save_metrics_return

SpecReentrant == Init /\ [][NextReentrant]_vars

InitMaint ==
    StoreInit /\ TriageIdle /\ SamplerIdle /\ LoopIdle /\ SingletonIdle
        /\ ForwardIdle /\ QueryIdle /\ MaintInit /\ TextIdle

NextMaint ==
    \/ \E b \in SeqsUpTo(MaintMetrics, MaxMaintBatch) : m_save_metrics(b)
    \/ m_tick
    \/ \E days \in 0..MaxDay : cleanup_old_metrics(days)
    \/ remove_duplicate_queries

SpecMaint == InitMaint /\ [][NextMaint]_vars

InitText ==
    StoreInit /\ TriageIdle /\ SamplerIdle /\ LoopIdle /\ SingletonIdle
        /\ ForwardIdle /\ QueryIdle /\ MaintIdle /\ TextInit

NextText ==
    \/ \E item \in TextItems : z_save_metrics(item)
    \/ \E text \in TextValues, plan \in TextValues, asBytes \in BOOLEAN,
          planIsNull \in BOOLEAN : z_legacy_row(text, plan, asBytes, planIsNull)
    \/ \E op \in ReadOperations : z_read(op)

SpecText == InitText /\ [][NextText]_vars

(***************************************************************************)
(* Claims about the store.                                                 *)
(***************************************************************************)
\* the rows a batch becomes, ids aside
SameRecords(stored, batch) ==
    /\ Len(stored) = Len(batch)
    /\ \A j \in 1..Len(batch) :
         stored[j].text = batch[j].text /\ stored[j].hash = batch[j].hash

\* C1: save_metrics notifies observers only after the commit and only on
\* success: at every observer call the store already holds, committed,
\* exactly the batch the observer receives; while the batch is uncommitted
\* no observer has been called; and a call that answers False (a failure
\* or an empty batch) has left the rows as they were and called nobody.
C1_NotifyOnlyAfterCommit ==
    /\ \A i \in 1..Len(calls) :
         /\ calls[i].batch = cur
         /\ SameRecords(calls[i].stored, calls[i].batch)
    /\ (pc \in {"insert", "commit"}) => calls = <<>>
    /\ (ret = "false") => (calls = <<>> /\ rows = rowsBefore)

C1_Witness ==
    /\ pc = "idle" /\ ret = "true"
    /\ Len(cur) = 2 /\ Len(calls) = 2
    /\ Len(rowsBefore) > 0

\* C2: save_metrics is atomic: at every moment the committed table holds,
\* after the rows of earlier calls (unchanged), all rows of the batch or
\* none; once the call has answered, all of them iff it answered True; and
\* no read on another connection returned some but not all rows of a batch
\* in flight.
C2_AppendAtomic ==
    /\ SubSeq(rows, 1, Len(rowsBefore)) = rowsBefore
    /\ StoredByCall = <<>> \/ StoredByCall = RowsOf(cur, nextId - Len(cur))
    /\ (pc = "idle" /\ ret = "false") => StoredByCall = <<>>
    /\ (pc = "idle" /\ ret = "true") => StoredByCall # <<>>
    /\ ~(0 < lastRead.pending /\ lastRead.pending < lastRead.inflight)
    /\ \A i \in 1..Len(lastRead.view) : lastRead.view[i].id < nextId

C2_Witness ==
    /\ pc = "idle" /\ ret = "false"
    /\ Len(cur) = 2 /\ ~InsertRaises(cur[1]) /\ InsertRaises(cur[2])
    /\ Len(rows) > 0
    /\ lastRead.inflight = 2 /\ lastRead.view = rows

\* C3: an observer that raises stops nothing: once an observer has raised,
\* the committed rows of the batch are still in the table, the call never
\* answers False, and when it has answered every observer registered at the
\* commit has been called, in order.
C3_ObserverErrorIsolated ==
    (\E i \in 1..Len(calls) : calls[i].raised) =>
        /\ SameRecords(StoredByCall, cur)
        /\ ret # "false"
        /\ (pc = "idle") =>
              /\ ret = "true"
              /\ [i \in 1..Len(calls) |-> calls[i].obs] = obsAtCommit

C3_Witness ==
    /\ pc = "idle" /\ ret = "true"
    /\ Len(calls) = 2 /\ calls[1].raised /\ ~calls[2].raised

(***************************************************************************)
(* Claims about the triage engine.                                         *)
(***************************************************************************)
TriageDone == tPc = "done"

TriageReturned == tPc = "done" /\ ~tResult.raised

\* positions of the batch that are in the output
OutIdx == { tResult.out[k].idx : k \in 1..Len(tResult.out) }

\* the output entry of position i
OutOf(i) == tResult.out[CHOOSE k \in 1..Len(tResult.out) : tResult.out[k].idx = i]

CriterionNames ==
    { "High avg elapsed time", "High total elapsed time", "High avg CPU time",
      "High avg logical reads", "High avg physical reads",
      "High total logical reads", "Memory spills detected", "High memory grant",
      "Low buffer hit ratio", "Low CPU efficiency", "Frequent slow query" }

\* The criteria as the specification lists them: ten comparisons of one field
\* with its limit and the compound rule; a missing magnitude counts as 0 and
\* a missing ratio as 100.
Fires(c, q, th) ==
    CASE c = "High avg elapsed time" ->
            Val(q, "avg_elapsed_time_ms", 0) > th.max_avg_elapsed_time_ms
      [] c = "High total elapsed time" ->
            Val(q, "total_elapsed_time_ms", 0) > th.max_total_elapsed_time_ms
      [] c = "High avg CPU time" ->
            Val(q, "avg_cpu_time_ms", 0) > th.max_avg_cpu_time_ms
      [] c = "High avg logical reads" ->
            Val(q, "avg_logical_reads", 0) > th.max_avg_logical_reads
      [] c = "High avg physical reads" ->
            Val(q, "avg_physical_reads", 0) > th.max_avg_physical_reads
      [] c = "High total logical reads" ->
            Val(q, "total_logical_reads", 0) > th.max_total_logical_reads
      [] c = "Memory spills detected" ->
            Val(q, "total_spills", 0) >= th.min_spills_to_capture
      [] c = "High memory grant" ->
            Val(q, "avg_grant_kb", 0) > th.max_avg_grant_kb
      [] c = "Low buffer hit ratio" ->
            Val(q, "buffer_hit_ratio", 100) < th.min_buffer_hit_ratio
      [] c = "Low CPU efficiency" ->
            Val(q, "cpu_efficiency_ratio", 100) < th.min_cpu_efficiency_ratio
      [] c = "Frequent slow query" ->
            /\ 2 * Val(q, "avg_elapsed_time_ms", 0) > th.max_avg_elapsed_time_ms
            /\ Val(q, "execution_count", 0) > th.max_execution_count_for_slow_queries

FiredCriteria(q, th) == { c \in CriterionNames : Fires(c, q, th) }

\* record i fires at least one criterion under the profile in force
Problematic(i) == FiredCriteria(tBatch[i], Thresholds(tProfile)) # {}

SeqToSet(s) == { s[k] : k \in 1..Len(s) }

\* an earlier record with the same hash was retained
Suppressed(i) ==
    \E j \in 1..(i - 1) :
        /\ j \in OutIdx
        /\ Truthy(HashOf(tBatch[i]))
        /\ HashOf(tBatch[j]) = HashOf(tBatch[i])

ScenarioSlow == [avg_elapsed_time_ms |-> Num(1500), execution_count |-> Num(5)]

ScenarioFast == [avg_elapsed_time_ms |-> Num(10), execution_count |-> Num(5)]

\* C4: a record (not shadowed by an earlier retained record of its hash) is
\* retained if and only if at least one of the eleven criteria fires, and
\* its criteria list holds exactly one reason per fired criterion; of the
\* scenario's two records only the first is retained under the balanced and
\* the conservative preset, under the latter with the elapsed-time reason.
C4_ProblematicIffCriterionFires ==
    TriageReturned =>
        /\ \A i \in 1..Len(tBatch) :
             ~Suppressed(i) =>
                /\ (i \in OutIdx) <=> Problematic(i)
                /\ (i \in OutIdx) =>
                     /\ SeqToSet(OutOf(i).criteria)
                          = FiredCriteria(tBatch[i], Thresholds(tProfile))
                     /\ Len(OutOf(i).criteria)
                          = Cardinality(FiredCriteria(tBatch[i], Thresholds(tProfile)))
        /\ (tBatch = <<ScenarioSlow, ScenarioFast>>
              /\ tProfile \in {"balanced", "conservative"}) =>
                /\ OutIdx = {1}
                /\ (tProfile = "conservative") =>
                      "High avg elapsed time" \in SeqToSet(OutOf(1).criteria)

C4_Witness ==
    /\ TriageReturned
    /\ tBatch = <<ScenarioSlow, ScenarioFast>>
    /\ tProfile = "conservative"
    /\ OutIdx = {1}
    /\ OutOf(1).criteria = <<"High avg elapsed time">>

\* C5 (as stated): no record whose execution_count is 0 is in the output,
\* whatever its other fields hold.
C5_ZeroExecutionsExcluded ==
    TriageDone =>
        \A i \in OutIdx :
            ~("execution_count" \in DOMAIN tBatch[i]
                /\ tBatch[i]["execution_count"] = Num(0))

\* the problematic records of a hash, and the first of them
SameHashProblematic(i) ==
    { k \in 1..Len(tBatch) : Problematic(k) /\ HashOf(tBatch[k]) = HashOf(tBatch[i]) }

FirstOf(S) == CHOOSE k \in S : \A l \in S : k <= l

\* the problematic, deduplicated set: every problematic record without a
\* hash, and of each hash the first problematic record
Survivors ==
    { i \in 1..Len(tBatch) :
        /\ Problematic(i)
        /\ Truthy(HashOf(tBatch[i])) => i = FirstOf(SameHashProblematic(i)) }

Cap == Thresholds(tProfile).max_stored_queries_per_collection

\* C6 (as stated): of two problematic records that share a hash (one that
\* is present: neither null nor empty), exactly one, the first encountered,
\* is in the output.
C6_ExactlyFirstRetained ==
    TriageReturned =>
        \A i, j \in 1..Len(tBatch) :
            (/\ i < j
             /\ Truthy(HashOf(tBatch[i]))
             /\ HashOf(tBatch[i]) = HashOf(tBatch[j])
             /\ Problematic(i) /\ Problematic(j)) =>
                OutIdx \cap SameHashProblematic(i) = {FirstOf(SameHashProblematic(i))}

\* C6 (amended): of the problematic records that share a non-empty hash none
\* but the first encountered is ever in the output, and the first is in it
\* whenever triage returns and the problematic, deduplicated set is within
\* the cap; then the output is exactly that set, so that records without a
\* hash (null or empty) are all kept and a record that is not problematic
\* suppresses nothing.  When triage raises, nothing is retained.
C6_FirstProblematicWins ==
    TriageDone =>
        /\ tResult.raised => tResult.out = <<>>
        /\ \A i \in 1..Len(tBatch) :
             (Problematic(i) /\ Truthy(HashOf(tBatch[i]))) =>
                OutIdx \cap SameHashProblematic(i) \subseteq {FirstOf(SameHashProblematic(i))}
        /\ ~tResult.raised =>
             /\ OutIdx \subseteq Survivors
             /\ Cardinality(Survivors) <= Cap => OutIdx = Survivors

C6_Witness ==
    /\ TriageReturned
    /\ \E i, j, k, l \in 1..Len(tBatch) :
         /\ i < j /\ j < k
         \* an unproblematic record, then two problematic ones, of one hash
         /\ HashOf(tBatch[i]) = "h1" /\ HashOf(tBatch[j]) = "h1" /\ HashOf(tBatch[k]) = "h1"
         /\ ~Problematic(i) /\ Problematic(j) /\ Problematic(k)
         /\ j \in OutIdx /\ k \notin OutIdx
         \* and one without a hash
         /\ ~Truthy(HashOf(tBatch[l])) /\ l \in OutIdx

\* the severity score of the specification, times 10000
SeverityOf(i) ==
    LET q == tBatch[i]
    IN  3000 * Val(q, "avg_elapsed_time_ms", 0)
        + 2 * Val(q, "total_elapsed_time_ms", 0)
        + 2 * Val(q, "avg_logical_reads", 0)
        + 10000000 * Val(q, "total_spills", 0)
        + 3 * Val(q, "execution_count", 0) * Val(q, "avg_elapsed_time_ms", 0)

\* i ranks before j: a higher score, or the same score and earlier in the batch
RanksBefore(i, j) ==
    \/ SeverityOf(i) > SeverityOf(j)
    \/ SeverityOf(i) = SeverityOf(j) /\ i < j

\* C7: when the problematic, deduplicated set exceeds the cap, the output is
\* exactly its top `cap` records by severity score, ties broken by the
\* original order, listed in that rank; a set within the cap is emitted
\* whole, in the original order.
C7_TopBySeverity ==
    TriageReturned =>
        IF Cardinality(Survivors) > Cap
        THEN /\ Len(tResult.out) = Cap
             /\ OutIdx \subseteq Survivors
             /\ \A a \in OutIdx : \A b \in Survivors \ OutIdx : RanksBefore(a, b)
             /\ \A k, l \in 1..Len(tResult.out) :
                    k < l => RanksBefore(tResult.out[k].idx, tResult.out[l].idx)
        ELSE /\ OutIdx = Survivors
             /\ Len(tResult.out) = Cardinality(Survivors)
             /\ \A k, l \in 1..Len(tResult.out) :
                    k < l => tResult.out[k].idx < tResult.out[l].idx

C7_Witness ==
    /\ TriageReturned
    /\ Cardinality(Survivors) > Cap
    /\ \E a \in OutIdx : \E b \in Survivors \ OutIdx :
          SeverityOf(a) = SeverityOf(b) /\ a < b
    /\ \E a \in OutIdx : \E b \in Survivors \ OutIdx :
          SeverityOf(a) > SeverityOf(b) /\ a > b

\* a record triage can evaluate
WellFormed(q) == ~ConversionRaises(q) /\ ~LogRaises(q)

\* C8 (as stated): triage never raises on a missing or unparseable numeric
\* field; the field counts as 0 or 100, or that record alone is dropped, and
\* every other record is still evaluated and emitted.
C8_MalformedNeverAborts ==
    TriageDone =>
        /\ ~tResult.raised
        /\ \A i \in 1..Len(tBatch) :
             (WellFormed(tBatch[i]) /\ Problematic(i) /\ ~Suppressed(i)) => i \in OutIdx

(***************************************************************************)
(* Claims about the sampler.                                               *)
(***************************************************************************)
\* C9: a collect() made while the collector is started never raises and
\* never answers None: it answers a batch, and the empty batch whenever the
\* connection or the query failed.
C9_CollectNeverRaisesWhenStarted ==
    (collected.kind # "never" /\ collected.started) =>
        /\ collected.kind = "data"
        /\ collected.failed => collected.data = <<>>

C9_Witness ==
    /\ collected.started /\ collected.failed
    /\ collected.kind = "data" /\ collected.data = <<>>
    /\ connection = "down"

\* C10: after start() the collector is started, also when the connection
\* check failed; after stop() it is stopped; and a collect() made before any
\* start(), or after a stop() with no start() since, raises the precondition
\* error instead of answering a batch.
C10_SamplerLifecycle ==
    /\ (life = "started") => isStarted
    /\ (life = "stopped") => ~isStarted
    /\ (life = "new") => ~isStarted
    /\ (collected.kind # "never" /\ collected.life # "started") =>
            collected.kind = "raised"
    /\ (collected.kind # "never" /\ collected.life = "started") =>
            collected.kind # "raised"

C10_Witness ==
    /\ life = "started" /\ isStarted /\ startLog = "limited mode"
    /\ collected.kind = "raised" /\ collected.life = "stopped"

(***************************************************************************)
(* Claims about the orchestrator.                                          *)
(***************************************************************************)
LiveWorkers == { w \in Workers : Alive(w) }

InCycle == { w \in Workers : workerPc[w] \in {"collect", "process"} }

\* C11 (as stated): whatever the interleaving of start_data_collection and
\* stop_data_collection calls, at most one collection thread is alive and
\* at most one cycle is in progress.
C11_AtMostOneLoop ==
    /\ Cardinality(LiveWorkers) <= 1
    /\ Cardinality(InCycle) <= 1

NoCallInProgress == \A c \in Callers : callerPc[c] = "idle"

\* C12 (as stated): once a start_data_collection call has returned, with no
\* call in progress and no stop since, the stop signal is clear, the sampler
\* is started and a collection thread is alive, whatever the state the call
\* was made in (that no second thread is alive is C11).
C12_StartLeavesLoopPolling ==
    (lastCall.op = "start" /\ NoCallInProgress) =>
        /\ ~stopFlag
        /\ isStarted
        /\ LiveWorkers # {}

\* C13: a collection thread ends only at the test of its while loop with
\* the stop signal set, never because a cycle raised; and a worker waiting
\* after a cycle that raised goes on to a further cycle unless stop is
\* signalled.
C13_FailingCycleDoesNotEndLoop ==
    /\ [][\A w \in Workers :
            (workerPc[w] # "dead" /\ workerPc'[w] = "dead") =>
                (workerPc[w] = "check" /\ stopFlag)]_vars
    /\ \A w \in Workers :
         (workerPc[w] = "wait" /\ lastCycle[w] = "raised")
            ~> (workerPc[w] = "collect" \/ stopFlag)

\* a cycle that raised was followed, in the same thread, by one that did not
C13_Witness ==
    \E w \in Workers :
        /\ lastCycle[w] = "recovered"
        /\ Alive(w)
        /\ ~stopFlag

InStop(c) == callerPc[c] \in {"stop_set", "stop_sampler", "stop_join"}

C15_LoopExitsAfterStop ==
    /\ stopFlag ~> (~stopFlag \/ LiveWorkers = {})
    /\ [](\A w \in Workers :
            (workerPc[w] = "wait" /\ stopFlag) => WaitReturns(stopFlag, elapsed[w]))
    /\ [][\A w \in Workers :
            /\ (workerPc[w] # "collect" /\ workerPc'[w] = "collect") => ~stopFlag
            /\ (workerPc[w] \in {"collect", "process"}) =>
                  workerPc'[w] \in {"collect", "process", "wait"}]_vars

\* a worker that completed a cycle has ended on the stop signal, before its
\* interval was over
C15_Witness ==
    /\ stopFlag
    /\ LiveWorkers = {}
    /\ \E w \in Workers : workerPc[w] = "dead" /\ lastCycle[w] # "none"

\* C16 (as stated): however the get_instance calls interleave, one Core is
\* constructed and every call returns that one.
C16_SingletonSafe ==
    /\ constructed <= 1
    /\ \A t, u \in GetThreads :
         (getRet[t] # 0 /\ getRet[u] # 0) => getRet[t] = getRet[u]

\* the publisher is connected in the sense of the specification: it is
\* configured enabled and the broker accepted connect and declare
PublisherUp == mqConfig.enabled /\ mqConfig.connectOk /\ mqConfig.declareOk

\* C17 (as stated): every appended batch reaches the dashboard adapter and,
\* when the publisher is connected, the publisher; no failure propagates.
C17_ForwardedToDashboardAndPublisher ==
    \A i \in 1..Len(forwardLog) :
        /\ forwardLog[i].dashboard
        /\ ~forwardLog[i].propagated
        /\ PublisherUp => forwardLog[i].sent

\* C18 (as stated): after construction with the publisher enabled, the
\* publisher is connected exactly when connect and declare succeeded.
C18_PublisherConnectedIffBrokerAnswers ==
    (corePc = "ready" /\ mqConfig.enabled) =>
        (mq_bridge = "bridge" <=> (mqConfig.connectOk /\ mqConfig.declareOk))

\* C19 (as stated): while the server is reachable a polling cycle of a
\* started sampler can collect, whether or not the server was reachable
\* when the orchestrator was constructed.
C19_ResumesWhenSourceReturns ==
    \A w \in Workers :
        (workerPc[w] = "collect" /\ isStarted /\ server = "up") =>
            ConnectionWorks(connection)

(***************************************************************************)
(* Claims about the store's queries.                                       *)
(***************************************************************************)
Min(a, b) == IF a <= b THEN a ELSE b

\* the last n rows of a table kept in append order
LastAppended(table, n) == SubSeq(table, Len(table) - n + 1, Len(table))

\* C20: get_latest_metrics(limit) returns the min(limit, count) rows
\* appended last, the oldest of them first.
C20_LatestInChronologicalOrder ==
    (qResult.kind = "latest" /\ qResult.limit >= 0) =>
        qResult.out = LastAppended(qResult.of, Min(qResult.limit, Len(qResult.of)))

\* one batch of three rows stored within one second, then get_latest(2)
C20_Witness ==
    /\ qResult.kind = "latest"
    /\ qResult.limit = 2
    /\ Len(qResult.of) = 3
    /\ \A i \in 1..3 : qResult.of[i].created_at = qResult.of[1].created_at
    /\ qResult.out = <<qResult.of[2], qResult.of[3]>>

(***************************************************************************)
(* Claims about reads, maintenance, the text fields and the registry.      *)
(***************************************************************************)
\* C21: get_all_metrics returns every stored row in persistence order:
\* the rows of an earlier save_metrics come before the rows of a later one,
\* and the rows of one call in the order in which they were passed (the
\* clock of created_at does not go backwards).
C21_GetAllInPersistenceOrder ==
    qResult.kind = "all" => qResult.out = qResult.of

\* get_all_metrics over three rows, two of them of one second
C21_Witness ==
    /\ qResult.kind = "all"
    /\ Len(qResult.out) = 3
    /\ \E i, j \in 1..2 :
         /\ qResult.out[i].created_at = qResult.out[i + 1].created_at
         /\ qResult.out[j].created_at < qResult.out[j + 1].created_at

\* datetime.fromisoformat
fromisoformat(s) ==
    [day |-> (s[1] - CodeOfZero) * 10 + (s[2] - CodeOfZero),
     us |-> IF Len(s) = 2 THEN 0 ELSE s[4] - CodeOfZero]

\* the row's triage timestamp is older than now - days
OlderThan(r, days) == Earlier(fromisoformat(r.timestamp), MinusDays(mNow, days))

\* C22: cleanup_old_metrics(N) deletes exactly the rows whose timestamp is
\* older than now - N days and none whose timestamp is at or after it; it
\* returns True, also when no row matches, and the same call made again at
\* once deletes nothing.
C22_CleanupDeletesExactlyTheOld ==
    mLast.op = "cleanup" =>
        LET Recent(r) == ~OlderThan(r, mLast.days)
        IN  /\ mLast.ret = "true"
            /\ mLast.after = SelectSeq(mLast.before, Recent)
            /\ mLast.again => mLast.after = mLast.before

\* a second cleanup right after one that deleted a row and kept a row whose
\* timestamp is exactly now - N days
C22_Witness ==
    /\ mLast.op = "cleanup"
    /\ mLast.again
    /\ mLast.firstRemoved > 0
    /\ \E i \in 1..Len(mLast.after) :
         fromisoformat(mLast.after[i].timestamp) = MinusDays(mNow, mLast.days)

\* what deduplication is to leave: of the rows with a hash the one with the
\* highest id of each hash, of the rows without a hash the one with the
\* highest id of each text
Deduplicated(table) ==
    LET Highest(r) ==
            \A x \in SeqRange(table) :
                IF r.hash # NullHash
                THEN x.hash = r.hash => x.id <= r.id
                ELSE (x.hash = NullHash /\ x.text = r.text) => x.id <= r.id
    IN  SelectSeq(table, Highest)

C24_DedupIdempotent ==
    (mLast.op = "dedup" /\ mLast.again) =>
        /\ mLast.after = mLast.before
        /\ mLast.ret = "true"

\* a second call after a first one that removed rows
C24_Witness ==
    /\ mLast.op = "dedup"
    /\ mLast.again
    /\ mLast.firstRemoved > 0

\* C25: a read operation gives back the text and the plan that were
\* written, for a row save_metrics compressed and for a legacy row alike;
\* a plan that is absent (no key, None, NULL) reads back as ''.
C25_TextRoundTrip ==
    zRead.op # "none" =>
        /\ zRead.query_text = Str(zRow.text)
        /\ zRead.query_plan = Str(zRow.plan)

NoDuplicates(s) == \A i, j \in 1..Len(s) : s[i] = s[j] => i = j

\* the observers the current / last save_metrics called, in call order
ObserversCalled == [k \in 1..Len(calls) |-> calls[k].obs]

\* C26: the registry never holds an observer twice; the registry changes
\* only by appending an observer that was not registered or by removing one
\* that was; a save_metrics that returns True has called the registered
\* observers once each, in registration order.
C26_RegistryHoldsEachObserverOnce ==
    /\ [](NoDuplicates(observers))
    /\ []((pc = "idle" /\ ret = "true") => ObserversCalled = obsAtCommit)
    /\ [][observers' # observers =>
            \E o \in ObserverIds :
                \/ ~InSeq(o, observers) /\ observers' = Append(observers, o)
                \/ InSeq(o, observers) /\ ~InSeq(o, observers')
                     /\ Len(observers') = Len(observers) - 1]_vars

\* a successful append with o2 registered before o1
C26_Witness ==
    /\ pc = "idle"
    /\ ret = "true"
    /\ obsAtCommit = <<"o2", "o1">>
    /\ ObserversCalled = <<"o2", "o1">>

\* C27: every collect() of the worker finds the collector started.
C27_CollectOnlyWhileStarted ==
    [][\A w \in Workers :
          (workerPc[w] = "collect" /\ workerPc'[w] # "collect") => isStarted]_vars

\* C28: a save_metrics that returns True has called every observer that
\* was registered when it committed exactly once, also when an observer
\* registers or removes observers while it is called.
C28_RegisteredAtCommitCalledOnce ==
    (pc = "idle" /\ ret = "true") =>
        \A o \in SeqRange(obsAtCommit) :
            Cardinality({ k \in 1..Len(calls) : calls[k].obs = o }) = 1

(***************************************************************************)
(* Claims about the triage output and the presets.                         *)
(***************************************************************************)
\* a hash that is there: neither None nor ''
NonEmptyHash(h) == h # PyNone /\ h # ""

\* C29: the output of _filter_problematic_queries holds at most
\* max_stored_queries_per_collection records; each is a record of the batch
\* that fires a criterion; no record of the batch is in it twice and no two
\* of its records share a non-empty query_hash.
C29_TriageOutputWellFormed ==
    TriageReturned =>
        /\ Len(tResult.out) <= Cap
        /\ \A k \in 1..Len(tResult.out) :
             /\ tResult.out[k].idx \in 1..Len(tBatch)
             /\ Problematic(tResult.out[k].idx)
        /\ \A k, l \in 1..Len(tResult.out) :
             k # l =>
                /\ tResult.out[k].idx # tResult.out[l].idx
                /\ NonEmptyHash(HashOf(tBatch[tResult.out[k].idx])) =>
                     HashOf(tBatch[tResult.out[k].idx]) # HashOf(tBatch[tResult.out[l].idx])

\* a batch with two problematic records of one hash and more survivors
\* than the cap admits
C29_Witness ==
    /\ TriageReturned
    /\ Len(tResult.out) = Cap
    /\ Cardinality(Survivors) > Cap
    /\ \E i, j \in 1..Len(tBatch) :
         /\ i # j
         /\ Problematic(i) /\ Problematic(j)
         /\ NonEmptyHash(HashOf(tBatch[i]))
         /\ HashOf(tBatch[i]) = HashOf(tBatch[j])

\* the limits a record must exceed, and those it must fall below
UpperLimits ==
    { "max_avg_elapsed_time_ms", "max_total_elapsed_time_ms", "max_avg_cpu_time_ms",
      "max_avg_logical_reads", "max_avg_physical_reads", "max_total_logical_reads",
      "max_avg_grant_kb", "max_execution_count_for_slow_queries" }

LowerLimits == { "min_buffer_hit_ratio", "min_cpu_efficiency_ratio" }

\* every limit of a is at least as tight as that of b
AtLeastAsTight(a, b) ==
    /\ \A f \in UpperLimits : a[f] <= b[f]
    /\ \A f \in LowerLimits : a[f] >= b[f]
    /\ a.min_spills_to_capture <= b.min_spills_to_capture

\* C30: a record that is problematic under the aggressive preset is
\* problematic under the balanced one, and a record problematic under the
\* balanced preset is problematic under the conservative one; every limit
\* of the stricter preset is at least as tight.
C30_PresetsOrderedByStrictness ==
    /\ AtLeastAsTight(Conservative, Balanced)
    /\ AtLeastAsTight(Balanced, Aggressive)
    /\ tPc = "done" =>
         \A i \in 1..Len(tBatch) :
            ~ConversionRaises(tBatch[i]) =>
                /\ is_problematic_query(tBatch[i], Aggressive) =>
                     is_problematic_query(tBatch[i], Balanced)
                /\ is_problematic_query(tBatch[i], Balanced) =>
                     is_problematic_query(tBatch[i], Conservative)

\* a batch with a record only the conservative preset flags and a record
\* the aggressive preset does not flag but the balanced one does
C30_Witness ==
    /\ tPc = "done"
    /\ \E i, j \in 1..Len(tBatch) :
         /\ ~ConversionRaises(tBatch[i]) /\ ~ConversionRaises(tBatch[j])
         /\ is_problematic_query(tBatch[i], Conservative)
         /\ ~is_problematic_query(tBatch[i], Balanced)
         /\ is_problematic_query(tBatch[j], Balanced)
         /\ ~is_problematic_query(tBatch[j], Aggressive)

====
